---- MODULE Spec2Model ----
(***************************************************************************)
(* Model of the per-resource-type cache of go-mcp (internal/appcontext)   *)
(* and of the list handlers that read through it (internal/tools/argo).   *)
(*                                                                         *)
(* Time is a discrete clock; one tick stands for 60 minutes, so the       *)
(* 60-minute TTLs of the source are 1 tick.                               *)
(***************************************************************************)
EXTENDS Integers, Sequences, FiniteSets, TLC

\* ---------------------------------------------------------------- bounds
MaxTime == 2
MaxTTL == 1
MaxApps == 2

\* ------------------------------------------------------ program constants
ClusterCacheTTL == 1
ApplicationCacheTTL == 1

\* ------------------------------------------------------------ input sets
R == {"clusters", "applications"}
H == {"h1", "h2"}
P == {"p1", "p2"}
Servers == {"a:443", "b:443"}
ItemLists == {<<>>, <<1>>}
SetTTLs == 0..MaxTTL

VARIABLES
    now,        \* time.Now()
    mem,        \* ctx.clusterCache / ctx.applicationCache (Nil = nil pointer)
    disk,       \* cluster_cache.json / application_cache.json
    idfile,     \* server_config.json
    argoServer, \* ctx.ArgoServer
    cpc,        \* position of main / NewAppContext
    changed,    \* value returned by hasServerChanged in this construction
    cfetch,     \* per resource type: refreshes made by this construction
    cold,       \* this construction started with no file at all
    kept,       \* cache files deleteAllCaches could not remove in this run
    setBy,      \* arguments and time of the Set that wrote mem[r], if any
    saved,      \* outcome of this construction's write of server_config.json
    hpc,        \* position of each request handler
    hres,       \* the last response a handler returned
    rw,         \* clusterCacheMutex / applicationCacheMutex (sync.RWMutex)
    call,       \* position of each direct caller of the cache methods
    flt,        \* a call of filterApplications: arguments and result
    heap        \* the cache entries allocated, and the pointers to them

vars == <<now, mem, disk, idfile, argoServer, cpc, changed, cfetch, cold,
          kept, saved, setBy, hpc, hres, rw, call, flt, heap>>

\* ------------------------------------------------------------ data model
Nil == [present |-> FALSE]
CacheEntry(items, cachedAt, expiresAt) ==
    [present |-> TRUE, items |-> items, cached_at |-> cachedAt,
     expires_at |-> expiresAt]

NoFile == [kind |-> "missing"]
Unreadable == [kind |-> "unreadable"]
Corrupt == [kind |-> "corrupt"]

NoSet == [called |-> FALSE]
NoFetch == [n |-> 0, res |-> "none", items |-> <<>>]
NoneKept == {}
NotSaved == "none"

\* sync.RWMutex: the writer holding it ("none" if none) and the readers
Free == [w |-> "none", rd |-> {}]
NoCall == [at |-> "idle", op |-> "none", in |-> "none", r |-> "clusters",
           items |-> <<>>, ttl |-> 0, res |-> "none", got |-> Nil]

Idle == [at |-> "idle", r |-> "clusters", t |-> 0]
NoResult == [kind |-> "none", r |-> "clusters", items |-> <<>>, err |-> <<>>,
             first |-> "none", refresh |-> "none"]

\* The pointers to cache entries that callers hold: the pointer the last
\* get() of a caller returned is nil, or refers to a ClusterCache /
\* ApplicationCache struct (cell: what the struct holds now; of: its cache;
\* current: the pointer of the cache, ctx.clusterCache, still refers to it).
NilPtr == [nil |-> TRUE]
Ptr(r, e) == [nil |-> FALSE, of |-> r, cell |-> e, current |-> TRUE]
NoHeap == [p \in P |-> NilPtr]

TTL(r) == IF r = "clusters" THEN ClusterCacheTTL ELSE ApplicationCacheTTL

\* fmt.Errorf("<msg>: %w", err): the chain of messages, outermost first
Wrap(msg, err) == <<msg>> \o err
UpstreamErr == <<"upstream">>
ClientErr == <<"dial">>

\* time.Time.After
After(t, u) == t > u

\* json.MarshalIndent / json.Unmarshal of a cache entry
EncodeCacheDropsExpiry(e) ==
    [kind |-> "json", items |-> e.items, cached_at |-> e.cached_at,
     expires_at |-> e.cached_at]
EncodeCache(e) ==
    [kind |-> "json", items |-> e.items, cached_at |-> e.cached_at,
     expires_at |-> e.expires_at]
DecodeCacheDropsItems(f) ==
    IF f.kind = "json"
    THEN [ok |-> TRUE, cache |-> CacheEntry(<<>>, f.cached_at, f.expires_at)]
    ELSE [ok |-> FALSE, cache |-> Nil]
DecodeCache(f) ==
    IF f.kind = "json"
    THEN [ok |-> TRUE, cache |-> CacheEntry(f.items, f.cached_at, f.expires_at)]
    ELSE [ok |-> FALSE, cache |-> Nil]

\* os.ReadFile: "ok", "notexist" or "error"
ReadFile(f) ==
    IF f.kind = "missing" THEN "notexist"
    ELSE IF f.kind = "unreadable" THEN "error"
    ELSE "ok"

\* os.WriteFile: w = "ok" writes data; a failure leaves the old file
\* ("unchanged", the open failed) or a truncated one ("partial")
WriteOutcomes == {"ok", "unchanged", "partial"}
WriteFile(old, data, w) ==
    IF w = "ok" THEN data
    ELSE IF w = "partial" THEN Corrupt
    ELSE old

\* os.Remove: rm = TRUE removes the file; a failure leaves it in place
Remove(old, rm) == IF rm THEN NoFile ELSE old

\* ---------------------------------------------------------- cache API
GetCachedEmptyIsMiss(r) ==
    IF mem[r] = Nil THEN Nil
    ELSE IF After(now, mem[r].expires_at) THEN Nil
    ELSE IF mem[r].items = <<>> THEN Nil
    ELSE mem[r]
GetCachedExpiredAtExpiry(r) ==
    IF mem[r] = Nil THEN Nil
    ELSE IF now >= mem[r].expires_at THEN Nil
    ELSE mem[r]
GetCached(r) ==
    IF mem[r] = Nil THEN Nil
    ELSE IF After(now, mem[r].expires_at) THEN Nil
    ELSE mem[r]

SetCacheTTLFromEpoch(r, items, ttl, w) ==
    LET e == CacheEntry(items, now, ttl) IN
    /\ mem' = [mem EXCEPT ![r] = e]
    /\ disk' = [disk EXCEPT ![r] = WriteFile(disk[r], EncodeCache(e), w)]
    /\ setBy' = [setBy EXCEPT ![r] =
                    [called |-> TRUE, items |-> items, ttl |-> ttl, at |-> now]]
SetCacheRollsBack(r, items, ttl, w) ==
    LET e == CacheEntry(items, now, now + ttl) IN
    /\ mem' = IF w = "ok" THEN [mem EXCEPT ![r] = e] ELSE mem
    /\ disk' = [disk EXCEPT ![r] = WriteFile(disk[r], EncodeCache(e), w)]
    /\ setBy' = [setBy EXCEPT ![r] =
                    [called |-> TRUE, items |-> items, ttl |-> ttl, at |-> now]]
SetCacheAppends(r, items, ttl, w) ==
    LET e == CacheEntry((IF mem[r] = Nil THEN <<>> ELSE mem[r].items) \o items,
                        now, now + ttl) IN
    /\ mem' = [mem EXCEPT ![r] = e]
    /\ disk' = [disk EXCEPT ![r] = WriteFile(disk[r], EncodeCache(e), w)]
    /\ setBy' = [setBy EXCEPT ![r] =
                    [called |-> TRUE, items |-> items, ttl |-> ttl, at |-> now]]
SetCache(r, items, ttl, w) ==
    LET e == CacheEntry(items, now, now + ttl) IN
    /\ mem' = [mem EXCEPT ![r] = e]
    /\ disk' = [disk EXCEPT ![r] = WriteFile(disk[r], EncodeCache(e), w)]
    /\ setBy' = [setBy EXCEPT ![r] =
                    [called |-> TRUE, items |-> items, ttl |-> ttl, at |-> now]]

InvalidateCacheKeepsFile(r, rm) ==
    /\ mem' = [mem EXCEPT ![r] = Nil]
    /\ UNCHANGED disk
    /\ setBy' = [setBy EXCEPT ![r] = NoSet]
InvalidateCacheAll(r, rm) ==
    /\ mem' = [o \in R |-> Nil]
    /\ disk' = [o \in R |-> Remove(disk[o], rm)]
    /\ setBy' = [o \in R |-> NoSet]
InvalidateCache(r, rm) ==
    /\ mem' = [mem EXCEPT ![r] = Nil]
    /\ disk' = [disk EXCEPT ![r] = Remove(disk[r], rm)]
    /\ setBy' = [setBy EXCEPT ![r] = NoSet]

\* RefreshClusterCache / RefreshApplicationCache.  The upstream List call is
\* made with no lock held, so a refresh is two steps: it begins (the client
\* is created, or the creation fails and refresh returns that error) and
\* later the List call returns (an error, or items that are cached).
RefreshClientErr(r) ==
    Wrap(IF r = "clusters" THEN "failed to create cluster client"
         ELSE "failed to create application client", ClientErr)
RefreshListErr(r) ==
    Wrap(IF r = "clusters" THEN "failed to list clusters"
         ELSE "failed to list applications", UpstreamErr)
\* the failure paths return before anything is cached
RefreshFailedClears(r) == InvalidateCache(r, TRUE)
RefreshFailed(r) == UNCHANGED <<mem, disk, setBy>>
\* the success path caches the fetched items with the type's TTL
RefreshSucceededNoTTL(r, items, w) == SetCache(r, items, 0, w)
RefreshSucceeded(r, items, w) == SetCache(r, items, TTL(r), w)

\* ------------------------------------------------- filterApplications
\* An application as the filter reads it: Spec.Project, Namespace and
\* Spec.Destination.Server; the filter of a request (ListApplicationsInput).
Projects == {"project-a", "project-b"}
Namespaces == {"argocd", "other-namespace"}
DestServers == {"https://kubernetes.default.svc",
                "https://remote-cluster.example.com"}
Apps == [project : Projects, namespace : Namespaces, server : DestServers]
AppLists == UNION {[1..n -> Apps] : n \in 0..MaxApps}
Inputs == [project : Projects \cup {""}, namespace : Namespaces \cup {""},
           cluster : DestServers \cup {""}]
NoFilterCall == [at |-> "none", apps |-> <<>>,
                 input |-> [project |-> "", namespace |-> "", cluster |-> ""],
                 out |-> <<>>]

\* the loop of filterApplications from index i on, filtered being the
\* slice built so far
RECURSIVE filterLoop(_, _, _, _)
filterLoop(apps, input, i, filtered) ==
    IF i > Len(apps) THEN filtered
    ELSE IF input.project # "" /\ apps[i].project # input.project
    THEN filterLoop(apps, input, i + 1, filtered)
    ELSE IF input.namespace # "" /\ apps[i].namespace # input.namespace
    THEN filterLoop(apps, input, i + 1, filtered)
    ELSE IF input.cluster # "" /\ apps[i].server # input.cluster
    THEN filterLoop(apps, input, i + 1, filtered)
    ELSE filterLoop(apps, input, i + 1, Append(filtered, apps[i]))

filterApplicationsAnyFilter(apps, input) ==
    IF input.project = "" /\ input.namespace = "" /\ input.cluster = ""
    THEN apps
    ELSE LET Some(a) == \/ a.project = input.project
                        \/ a.namespace = input.namespace
                        \/ a.server = input.cluster
         IN SelectSeq(apps, Some)
filterApplications(apps, input) ==
    IF input.project = "" /\ input.namespace = "" /\ input.cluster = ""
    THEN apps
    ELSE filterLoop(apps, input, 1, <<>>)

\* ---------------------------------------------------------------- Init
Init ==
    /\ now = 0
    /\ mem = [r \in R |-> Nil]
    /\ disk = [r \in R |-> NoFile]
    /\ idfile = NoFile
    /\ argoServer = "a:443"
    /\ cpc = "down"
    /\ changed = FALSE
    /\ cfetch = [r \in R |-> NoFetch]
    /\ cold = FALSE
    /\ kept = NoneKept
    /\ saved = NotSaved
    /\ setBy = [r \in R |-> NoSet]
    /\ hpc = [h \in H |-> Idle]
    /\ hres = NoResult
    /\ rw = [r \in R |-> Free]
    /\ call = [p \in P |-> NoCall]
    /\ flt = NoFilterCall
    /\ heap = NoHeap

\* ------------------------------------------------- process start and exit
\* main: the process starts with the configured endpoint and fresh,
\* empty in-memory caches (&AppContext{...}).
Start ==
    /\ cpc = "down"
    /\ \E s \in Servers : argoServer' = s
    /\ cpc' = "mkdir"
    /\ cold' = (idfile = NoFile /\ \A r \in R : disk[r] = NoFile)
    /\ UNCHANGED <<now, mem, disk, idfile, changed, cfetch, kept, saved, setBy, hpc,
                   hres>>
    /\ UNCHANGED <<rw, call, flt, heap>>

\* The process ends (client disconnect, kill): memory is lost, files stay.
Exit ==
    /\ cpc # "down"
    /\ cpc' = "down"
    /\ mem' = [r \in R |-> Nil]
    /\ setBy' = [r \in R |-> NoSet]
    /\ changed' = FALSE
    /\ cfetch' = [r \in R |-> NoFetch]
    /\ cold' = FALSE
    /\ kept' = NoneKept
    /\ saved' = NotSaved
    /\ hpc' = [h \in H |-> Idle]
    /\ hres' = NoResult
    /\ UNCHANGED <<now, disk, idfile, argoServer>>
    /\ UNCHANGED <<rw, call, flt, heap>>

\* Between two runs the files of the state directory can be damaged:
\* truncated by a crash, made unreadable, or removed.
Damages == {Corrupt, Unreadable, NoFile}
EnvDamageCache ==
    /\ cpc = "down"
    /\ \E r \in R, d \in Damages : disk' = [disk EXCEPT ![r] = d]
    /\ UNCHANGED <<now, mem, idfile, argoServer, cpc, changed, cfetch, cold, kept, saved,
                   setBy, hpc, hres>>
    /\ UNCHANGED <<rw, call, flt, heap>>
EnvDamageIdentity ==
    /\ cpc = "down"
    /\ \E d \in Damages : idfile' = d
    /\ UNCHANGED <<now, mem, disk, argoServer, cpc, changed, cfetch, cold, kept, saved,
                   setBy, hpc, hres>>
    /\ UNCHANGED <<rw, call, flt, heap>>

\* ----------------------------------------------------------- NewAppContext
\* os.MkdirAll(log.ContextDir): a failure is logged and construction goes on
CtorMkdirAll ==
    /\ cpc = "mkdir"
    /\ \E ok \in BOOLEAN : cpc' = "hasChanged"
    /\ UNCHANGED <<now, mem, disk, idfile, argoServer, changed, cfetch, cold, kept, saved,
                   setBy, hpc, hres>>
    /\ UNCHANGED <<rw, call, flt, heap>>

hasServerChangedFailClosed(f, current) ==
    IF ReadFile(f) # "ok" THEN FALSE
    ELSE IF f.kind # "json" THEN TRUE
    ELSE f.server # current
hasServerChanged(f, current) ==
    IF ReadFile(f) # "ok" THEN FALSE
    ELSE IF f.kind # "json" THEN FALSE
    ELSE f.server # current

CtorHasServerChangedAfterSave ==
    /\ cpc = "hasChanged"
    /\ changed' = hasServerChanged([kind |-> "json", server |-> argoServer,
                                     saved_at |-> now], argoServer)
    /\ cpc' = IF changed' THEN "deleteAll" ELSE "save"
    /\ UNCHANGED <<now, mem, disk, idfile, argoServer, cfetch, cold, kept, saved, setBy,
                   hpc, hres>>
    /\ UNCHANGED <<rw, call, flt, heap>>
CtorHasServerChanged ==
    /\ cpc = "hasChanged"
    /\ changed' = hasServerChanged(idfile, argoServer)
    /\ cpc' = IF changed' THEN "deleteAll" ELSE "save"
    /\ UNCHANGED <<now, mem, disk, idfile, argoServer, cfetch, cold, kept, saved, setBy,
                   hpc, hres>>
    /\ UNCHANGED <<rw, call, flt, heap>>

\* deleteAllCaches: remove both cache files, then clear both pointers
deleteAllCachesMemoryOnly(rmC, rmA) ==
    /\ UNCHANGED disk
    /\ mem' = [r \in R |-> Nil]
    /\ setBy' = [r \in R |-> NoSet]
    /\ kept' = {}
deleteAllCaches(rmC, rmA) ==
    /\ disk' = [r \in R |->
                  Remove(disk[r], IF r = "clusters" THEN rmC ELSE rmA)]
    /\ mem' = [r \in R |-> Nil]
    /\ setBy' = [r \in R |-> NoSet]
    /\ kept' = {r \in R : disk[r] # NoFile
                            /\ ~(IF r = "clusters" THEN rmC ELSE rmA)}

CtorDeleteAllCaches ==
    /\ cpc = "deleteAll"
    /\ \E rmC \in BOOLEAN, rmA \in BOOLEAN : deleteAllCaches(rmC, rmA)
    /\ cpc' = "save"
    /\ UNCHANGED <<now, idfile, argoServer, changed, cfetch, cold, saved, hpc,
                   hres>>
    /\ UNCHANGED <<rw, call, flt, heap>>

saveServerConfigKeepsExisting(w) ==
    idfile' = IF idfile.kind = "json" THEN idfile
              ELSE WriteFile(idfile,
                             [kind |-> "json", server |-> argoServer,
                              saved_at |-> now], w)
saveServerConfig(w) ==
    idfile' = WriteFile(idfile,
                        [kind |-> "json", server |-> argoServer,
                         saved_at |-> now], w)

CtorSaveServerConfig ==
    /\ cpc = "save"
    /\ \E w \in WriteOutcomes : saveServerConfig(w) /\ saved' = w
    /\ cpc' = "load_clusters"
    /\ UNCHANGED <<now, mem, disk, argoServer, changed, cfetch, cold, kept, setBy,
                   hpc, hres>>
    /\ UNCHANGED <<rw, call, flt, heap>>

LoadPc(r) == IF r = "clusters" THEN "load_clusters" ELSE "load_applications"
RefreshPc(r) ==
    IF r = "clusters" THEN "refresh_clusters" ELSE "refresh_applications"
FetchPc(r) == IF r = "clusters" THEN "fetch_clusters" ELSE "fetch_applications"
AfterLoadPc(r) == IF r = "clusters" THEN "load_applications" ELSE "ret"

\* loadClusterCacheFromDisk / loadApplicationCacheFromDisk, up to the point
\* where it returns or calls Refresh (the lock is released before the call).
loadCacheFromDiskNoColdFetch(r) ==
    IF ReadFile(disk[r]) # "ok"
    THEN /\ cpc' = AfterLoadPc(r)
         /\ UNCHANGED <<mem, disk, setBy>>
    ELSE IF ~DecodeCache(disk[r]).ok
    THEN /\ cpc' = AfterLoadPc(r)
         /\ UNCHANGED <<mem, disk, setBy>>
    ELSE IF After(now, DecodeCache(disk[r]).cache.expires_at)
    THEN /\ \E rm \in BOOLEAN : disk' = [disk EXCEPT ![r] = Remove(@, rm)]
         /\ cpc' = RefreshPc(r)
         /\ UNCHANGED <<mem, setBy>>
    ELSE /\ mem' = [mem EXCEPT ![r] = DecodeCache(disk[r]).cache]
         /\ cpc' = AfterLoadPc(r)
         /\ UNCHANGED <<disk, setBy>>
loadCacheFromDiskRenews(r) ==
    IF ReadFile(disk[r]) # "ok"
    THEN /\ cpc' = RefreshPc(r)
         /\ UNCHANGED <<mem, disk, setBy>>
    ELSE IF ~DecodeCache(disk[r]).ok
    THEN /\ cpc' = AfterLoadPc(r)
         /\ UNCHANGED <<mem, disk, setBy>>
    ELSE IF After(now, DecodeCache(disk[r]).cache.expires_at)
    THEN /\ \E rm \in BOOLEAN : disk' = [disk EXCEPT ![r] = Remove(@, rm)]
         /\ cpc' = RefreshPc(r)
         /\ UNCHANGED <<mem, setBy>>
    ELSE /\ mem' = [mem EXCEPT ![r] =
                      CacheEntry(DecodeCache(disk[r]).cache.items, now,
                                 now + TTL(r))]
         /\ cpc' = AfterLoadPc(r)
         /\ UNCHANGED <<disk, setBy>>
loadCacheFromDiskAdoptsExpired(r) ==
    IF ReadFile(disk[r]) # "ok"
    THEN /\ cpc' = RefreshPc(r)
         /\ UNCHANGED <<mem, disk, setBy>>
    ELSE IF ~DecodeCache(disk[r]).ok
    THEN /\ cpc' = AfterLoadPc(r)
         /\ UNCHANGED <<mem, disk, setBy>>
    ELSE IF After(now, DecodeCache(disk[r]).cache.expires_at)
    THEN /\ \E rm \in BOOLEAN : disk' = [disk EXCEPT ![r] = Remove(@, rm)]
         /\ mem' = [mem EXCEPT ![r] = DecodeCache(disk[r]).cache]
         /\ cpc' = RefreshPc(r)
         /\ UNCHANGED setBy
    ELSE /\ mem' = [mem EXCEPT ![r] = DecodeCache(disk[r]).cache]
         /\ cpc' = AfterLoadPc(r)
         /\ UNCHANGED <<disk, setBy>>
loadCacheFromDiskCorruptRefreshes(r) ==
    IF ReadFile(disk[r]) # "ok" \/ ~DecodeCache(disk[r]).ok
    THEN /\ cpc' = RefreshPc(r)
         /\ UNCHANGED <<mem, disk, setBy>>
    ELSE IF After(now, DecodeCache(disk[r]).cache.expires_at)
    THEN /\ \E rm \in BOOLEAN : disk' = [disk EXCEPT ![r] = Remove(@, rm)]
         /\ cpc' = RefreshPc(r)
         /\ UNCHANGED <<mem, setBy>>
    ELSE /\ mem' = [mem EXCEPT ![r] = DecodeCache(disk[r]).cache]
         /\ cpc' = AfterLoadPc(r)
         /\ UNCHANGED <<disk, setBy>>
loadCacheFromDisk(r) ==
    IF ReadFile(disk[r]) # "ok"
    THEN \* no cache file, or the read failed: refresh
         /\ cpc' = RefreshPc(r)
         /\ UNCHANGED <<mem, disk, setBy>>
    ELSE IF ~DecodeCache(disk[r]).ok
    THEN \* unmarshal failed: logged, the cache stays empty
         /\ cpc' = AfterLoadPc(r)
         /\ UNCHANGED <<mem, disk, setBy>>
    ELSE IF After(now, DecodeCache(disk[r]).cache.expires_at)
    THEN \* expired: remove the file (result ignored), refresh
         /\ \E rm \in BOOLEAN : disk' = [disk EXCEPT ![r] = Remove(@, rm)]
         /\ cpc' = RefreshPc(r)
         /\ UNCHANGED <<mem, setBy>>
    ELSE \* valid: adopt the decoded entry
         /\ mem' = [mem EXCEPT ![r] = DecodeCache(disk[r]).cache]
         /\ cpc' = AfterLoadPc(r)
         /\ UNCHANGED <<disk, setBy>>

CtorLoad ==
    /\ \E r \in R : cpc = LoadPc(r) /\ loadCacheFromDisk(r)
    /\ UNCHANGED <<now, idfile, argoServer, changed, cfetch, cold, kept, saved, hpc, hres>>
    /\ UNCHANGED <<rw, call, flt, heap>>

\* The Refresh called by the load begins: the client is created and the List
\* call is sent, or the creation fails and Refresh returns the error, which
\* the load logs.
CtorRefreshBegin ==
    /\ \E r \in R :
         /\ cpc = RefreshPc(r)
         /\ \/ /\ cpc' = FetchPc(r)
               /\ cfetch' = [cfetch EXCEPT ![r] =
                               [n |-> @.n + 1, res |-> "none", items |-> <<>>]]
               /\ UNCHANGED <<mem, disk, setBy>>
            \/ /\ cpc' = AfterLoadPc(r)
               /\ cfetch' = [cfetch EXCEPT ![r] =
                               [n |-> @.n + 1, res |-> "err", items |-> <<>>]]
               /\ RefreshFailed(r)
    /\ UNCHANGED <<now, idfile, argoServer, changed, cold, kept, saved, hpc, hres>>
    /\ UNCHANGED <<rw, call, flt, heap>>

\* The List call of the construction's Refresh returns.
CtorFetchOk ==
    /\ \E r \in R :
         /\ cpc = FetchPc(r)
         /\ \E items \in ItemLists, w \in WriteOutcomes :
              /\ RefreshSucceeded(r, items, w)
              /\ cfetch' = [cfetch EXCEPT ![r] =
                              [n |-> @.n, res |-> "ok", items |-> items]]
         /\ cpc' = AfterLoadPc(r)
    /\ UNCHANGED <<now, idfile, argoServer, changed, cold, kept, saved, hpc, hres>>
    /\ UNCHANGED <<rw, call, flt, heap>>

CtorFetchErrRetries ==
    /\ \E r \in R :
         /\ cpc = FetchPc(r)
         /\ RefreshFailed(r)
         /\ cfetch' = [cfetch EXCEPT ![r] =
                         [n |-> @.n, res |-> "err", items |-> <<>>]]
         /\ cpc' = RefreshPc(r)
    /\ UNCHANGED <<now, idfile, argoServer, changed, cold, kept, saved, hpc, hres>>
    /\ UNCHANGED <<rw, call, flt, heap>>
CtorFetchErrFatal ==
    /\ \E r \in R :
         /\ cpc = FetchPc(r)
         /\ RefreshFailed(r)
         /\ cfetch' = [cfetch EXCEPT ![r] =
                         [n |-> @.n, res |-> "err", items |-> <<>>]]
         /\ cpc' = "fatal"
    /\ UNCHANGED <<now, idfile, argoServer, changed, cold, kept, saved, hpc, hres>>
    /\ UNCHANGED <<rw, call, flt, heap>>
CtorFetchErr ==
    /\ \E r \in R :
         /\ cpc = FetchPc(r)
         /\ RefreshFailed(r)
         /\ cfetch' = [cfetch EXCEPT ![r] =
                         [n |-> @.n, res |-> "err", items |-> <<>>]]
         /\ cpc' = AfterLoadPc(r)
    /\ UNCHANGED <<now, idfile, argoServer, changed, cold, kept, saved, hpc, hres>>
    /\ UNCHANGED <<rw, call, flt, heap>>

\* return ctx: the handlers are registered and the server loop starts
CtorReturn ==
    /\ cpc = "ret"
    /\ cpc' = "done"
    /\ changed' = FALSE
    /\ cfetch' = [r \in R |-> NoFetch]
    /\ cold' = FALSE
    /\ kept' = NoneKept
    /\ saved' = NotSaved
    /\ UNCHANGED <<now, mem, disk, idfile, argoServer, setBy, hpc, hres>>
    /\ UNCHANGED <<rw, call, flt, heap>>

Ctor ==
    \/ CtorMkdirAll
    \/ CtorHasServerChanged
    \/ CtorDeleteAllCaches
    \/ CtorSaveServerConfig
    \/ CtorLoad
    \/ CtorRefreshBegin
    \/ CtorFetchOk
    \/ CtorFetchErr
    \/ CtorReturn

\* ------------------------------------------------------ request handlers
\* NewListClustersHandler / NewListApplicationsHandler (no filter given).
RefreshWrapMsg(r) ==
    IF r = "clusters" THEN "failed to refresh cluster cache"
    ELSE "failed to refresh application cache"
EmptyAfterRefreshErr(r) ==
    IF r = "clusters" THEN <<"cluster cache is unexpectedly empty after refresh">>
    ELSE <<"application cache is unexpectedly empty after refresh">>

ItemsResult(r, items, first, refresh) ==
    [kind |-> "items", r |-> r, items |-> items, err |-> <<>>,
     first |-> first, refresh |-> refresh]
ErrorResult(r, err, refresh) ==
    [kind |-> "error", r |-> r, items |-> <<>>, err |-> err,
     first |-> "miss", refresh |-> refresh]

\* what the handler returns when its Refresh call returned err
HandlerRefreshFailedServesStale(r, err) ==
    IF mem[r] # Nil
    THEN ItemsResult(r, mem[r].items, "miss", "failed")
    ELSE ErrorResult(r, Wrap(RefreshWrapMsg(r), err), "failed")
HandlerRefreshFailed(r, err) ==
    ErrorResult(r, Wrap(RefreshWrapMsg(r), err), "failed")

\* what the handler does with the result c of its first GetCached:
\* TRUE = return the cached items, FALSE = go on to Refresh
HandlerHitNonEmpty(c) == c # Nil /\ c.items # <<>>
HandlerNeverHit(c) == FALSE
HandlerHit(c) == c # Nil

\* A request arrives: the first GetCached, and on a miss the beginning of
\* Refresh (client creation; the List call is then in flight).
HandlerStart(h, r) ==
    /\ cpc = "done"
    /\ hpc[h].at = "idle"
    /\ IF HandlerHit(GetCached(r))
       THEN /\ hres' = ItemsResult(r, GetCached(r).items, "hit", "none")
            /\ UNCHANGED <<hpc, mem, disk, setBy>>
       ELSE \/ /\ hpc' = [hpc EXCEPT ![h] = [at |-> "fetch", r |-> r, t |-> 0]]
               /\ UNCHANGED <<hres, mem, disk, setBy>>
            \/ /\ hres' = HandlerRefreshFailed(r, RefreshClientErr(r))
               /\ RefreshFailed(r)
               /\ UNCHANGED hpc
    /\ UNCHANGED <<now, idfile, argoServer, cpc, changed, cfetch, cold, kept, saved>>
    /\ UNCHANGED <<rw, call, flt, heap>>

\* The List call returns items: Refresh caches them and returns nil.
HandlerFetchOk(h, W) ==
    /\ hpc[h].at = "fetch"
    /\ \E items \in ItemLists, w \in W :
         RefreshSucceeded(hpc[h].r, items, w)
    /\ hpc' = [hpc EXCEPT ![h] = [at |-> "get2", r |-> hpc[h].r, t |-> now]]
    /\ UNCHANGED <<now, idfile, argoServer, cpc, changed, cfetch, cold, kept, saved, hres>>
    /\ UNCHANGED <<rw, call, flt, heap>>

\* The List call returns an error: Refresh returns it, the handler wraps it.
HandlerFetchErr(h) ==
    /\ hpc[h].at = "fetch"
    /\ RefreshFailed(hpc[h].r)
    /\ hres' = HandlerRefreshFailed(hpc[h].r, RefreshListErr(hpc[h].r))
    /\ hpc' = [hpc EXCEPT ![h] = Idle]
    /\ UNCHANGED <<now, idfile, argoServer, cpc, changed, cfetch, cold, kept, saved>>
    /\ UNCHANGED <<rw, call, flt, heap>>

\* After a successful Refresh: the second GetCached.
HandlerGet2(h) ==
    /\ hpc[h].at = "get2"
    /\ LET r == hpc[h].r
           c == GetCached(r)
       IN hres' = IF c = Nil
                  THEN ErrorResult(r, EmptyAfterRefreshErr(r), "ok")
                  ELSE ItemsResult(r, c.items, "miss", "ok")
    /\ hpc' = [hpc EXCEPT ![h] = Idle]
    /\ UNCHANGED <<now, mem, disk, idfile, argoServer, cpc, changed, cfetch,
                   cold, kept, saved, setBy>>
    /\ UNCHANGED <<rw, call, flt, heap>>

\* The requests of the handlers, W being the outcomes the disk writes of
\* their refreshes can have.
Handler(W) ==
    \E h \in H :
        \/ \E r \in R : HandlerStart(h, r)
        \/ HandlerFetchOk(h, W)
        \/ HandlerFetchErr(h)
        \/ HandlerGet2(h)

\* --------------------------------------- direct callers of the cache API
\* SetClusterCache / SetApplicationCache called with any items and TTL
ApiSet(W) ==
    /\ cpc = "done"
    /\ \E r \in R, items \in ItemLists, ttl \in SetTTLs, w \in W :
         SetCache(r, items, ttl, w)
    /\ UNCHANGED <<now, idfile, argoServer, cpc, changed, cfetch, cold, kept, saved, hpc,
                   hres>>
    /\ UNCHANGED <<rw, call, flt, heap>>

\* InvalidateClusterCache / InvalidateApplicationCache, RM being the
\* outcomes the removal of the file can have
ApiInvalidate(RM) ==
    /\ cpc = "done"
    /\ \E r \in R, rm \in RM : InvalidateCache(r, rm)
    /\ UNCHANGED <<now, idfile, argoServer, cpc, changed, cfetch, cold, kept, saved, hpc,
                   hres>>
    /\ UNCHANGED <<rw, call, flt, heap>>

\* Time passes while the process is down, waits for the upstream or serves
\* requests; the local steps of the construction take no time on the scale
\* of a tick.
Tick ==
    /\ now < MaxTime
    /\ cpc \in {"down", "done", "fetch_clusters", "fetch_applications"}
    /\ now' = now + 1
    /\ UNCHANGED <<mem, disk, idfile, argoServer, cpc, changed, cfetch, cold, kept, saved,
                   setBy, hpc, hres>>
    /\ UNCHANGED <<rw, call, flt, heap>>

Next ==
    \/ Tick
    \/ Start
    \/ Exit
    \/ EnvDamageCache
    \/ EnvDamageIdentity
    \/ Ctor

\* The life of the process: start, construction, exit, restart.
Spec == Init /\ [][Next]_vars

\* A constructed context whose startup fetches failed on a cold start:
\* nothing in memory, nothing on disk, the identity saved.
InitRunning ==
    /\ now = 0
    /\ mem = [r \in R |-> Nil]
    /\ disk = [r \in R |-> NoFile]
    /\ idfile = [kind |-> "json", server |-> "a:443", saved_at |-> 0]
    /\ argoServer = "a:443"
    /\ cpc = "done"
    /\ changed = FALSE
    /\ cfetch = [r \in R |-> NoFetch]
    /\ cold = FALSE
    /\ kept = NoneKept
    /\ saved = NotSaved
    /\ setBy = [r \in R |-> NoSet]
    /\ hpc = [h \in H |-> Idle]
    /\ hres = NoResult
    /\ rw = [r \in R |-> Free]
    /\ call = [p \in P |-> NoCall]
    /\ flt = NoFilterCall
    /\ heap = NoHeap

\* Concurrent requests on a constructed context, with invalidations, on a
\* disk that works (the handlers never read the files).
NextServe == Tick \/ Handler({"ok"}) \/ ApiInvalidate({TRUE})
SpecServe == InitRunning /\ [][NextServe]_vars

\* Direct use of the cache API (as the unit tests do), on a disk that can
\* fail.
NextCache == Tick \/ ApiSet(WriteOutcomes) \/ ApiInvalidate(BOOLEAN)
SpecCache == InitRunning /\ [][NextCache]_vars

\* ------------------------------------- the cache methods, lock by lock
\* Each caller makes one call of one method, as the goroutines of the
\* concurrency tests do.  A method is three steps: it takes the cache's
\* mutex, runs its body, and releases the mutex (the deferred Unlock).
Ops == {"set", "get", "invalidate", "refresh", "load"}

\* sync.RWMutex.Lock / Unlock / RLock / RUnlock
UnlockKeepsHeld(p, r) == rw[r].w = p /\ UNCHANGED rw
Lock(p, r) == rw[r] = Free /\ rw' = [rw EXCEPT ![r].w = p]
Unlock(p, r) == rw[r].w = p /\ rw' = [rw EXCEPT ![r].w = "none"]
RLock(p, r) == rw[r].w = "none" /\ rw' = [rw EXCEPT ![r].rd = @ \cup {p}]
RUnlock(p, r) == p \in rw[r].rd /\ rw' = [rw EXCEPT ![r].rd = @ \ {p}]

\* the branch loadClusterCacheFromDisk takes on the file it reads
LoadBranchCorruptRefreshes(r) ==
    IF ReadFile(disk[r]) # "ok" THEN "nofile"
    ELSE IF ~DecodeCache(disk[r]).ok THEN "nofile"
    ELSE IF After(now, DecodeCache(disk[r]).cache.expires_at) THEN "expired"
    ELSE "valid"
LoadBranch(r) ==
    IF ReadFile(disk[r]) # "ok" THEN "nofile"
    ELSE IF ~DecodeCache(disk[r]).ok THEN "corrupt"
    ELSE IF After(now, DecodeCache(disk[r]).cache.expires_at) THEN "expired"
    ELSE "valid"

\* A caller invokes a method on a resource type.
CallBegin(p) ==
    /\ cpc = "done"
    /\ call[p].at = "idle"
    /\ \E op \in Ops, r \in R :
         call' = [call EXCEPT ![p] =
                    [NoCall EXCEPT !.op = op, !.r = r,
                        !.in = IF op = "refresh" THEN "none" ELSE op,
                        !.at = IF op = "refresh" THEN "refresh" ELSE "acquire"]]
    /\ UNCHANGED <<flt, heap, now, mem, disk, idfile, argoServer, cpc, changed, cfetch,
                   cold, kept, saved, setBy, hpc, hres, rw>>

\* Refresh begins, with no lock held: the client is created and the List
\* call sent, or the creation fails and Refresh returns the error.
CallRefreshBeginLocked(p) ==
    /\ call[p].at = "refresh"
    /\ \/ /\ call' = [call EXCEPT ![p].at = "fetch"]
          /\ Lock(p, call[p].r)
       \/ /\ call' = [call EXCEPT ![p].at = "done", ![p].res = "err"]
          /\ UNCHANGED rw
    /\ RefreshFailed(call[p].r)
    /\ UNCHANGED <<flt, heap, now, idfile, argoServer, cpc, changed, cfetch, cold,
                   kept, saved, hpc, hres>>
CallRefreshBegin(p) ==
    /\ call[p].at = "refresh"
    /\ \/ call' = [call EXCEPT ![p].at = "fetch"]
       \/ call' = [call EXCEPT ![p].at = "done", ![p].res = "err"]
    /\ RefreshFailed(call[p].r)
    /\ UNCHANGED <<flt, heap, now, idfile, argoServer, cpc, changed, cfetch, cold, kept,
                   saved, hpc, hres, rw>>

\* The List call returns items: Refresh calls Set with them.
CallFetchOk(p) ==
    /\ call[p].at = "fetch"
    /\ call' = [call EXCEPT ![p].at = "acquire", ![p].in = "set"]
    /\ UNCHANGED <<flt, heap, now, mem, disk, idfile, argoServer, cpc, changed, cfetch,
                   cold, kept, saved, setBy, hpc, hres, rw>>

\* The List call returns an error: Refresh returns it.
CallFetchErr(p) ==
    /\ call[p].at = "fetch"
    /\ call' = [call EXCEPT ![p].at = "done", ![p].res = "err"]
    /\ RefreshFailed(call[p].r)
    /\ UNCHANGED <<flt, heap, now, idfile, argoServer, cpc, changed, cfetch, cold, kept,
                   saved, hpc, hres, rw>>

\* mutex.Lock() (Set, Invalidate, load) or mutex.RLock() (Get)
CallAcquire(p) ==
    /\ call[p].at = "acquire"
    /\ IF call[p].in = "get" THEN RLock(p, call[p].r) ELSE Lock(p, call[p].r)
    /\ call' = [call EXCEPT ![p].at = "locked"]
    /\ UNCHANGED <<flt, heap, now, mem, disk, idfile, argoServer, cpc, changed, cfetch,
                   cold, kept, saved, setBy, hpc, hres>>

CallBodyGetEvicts(p, W, RM) ==
    /\ call[p].at = "locked"
    /\ LET r == call[p].r
           m == call[p].in
       IN \/ /\ m = "set"
             /\ \E items \in ItemLists, w \in W,
                   ttl \in IF call[p].op = "set" THEN SetTTLs ELSE {TTL(r)} :
                  /\ IF call[p].op = "set" THEN SetCache(r, items, ttl, w)
                     ELSE RefreshSucceeded(r, items, w)
                  /\ call' = [call EXCEPT ![p].at = "unlock",
                                          ![p].items = items, ![p].ttl = ttl,
                                          ![p].res = "ok"]
          \/ /\ m = "get"
             /\ call' = [call EXCEPT ![p].at = "unlock", ![p].res = "ok",
                                     ![p].got = GetCached(r)]
             /\ IF mem[r] # Nil /\ GetCached(r) = Nil
                THEN InvalidateCache(r, TRUE)
                ELSE UNCHANGED <<mem, disk, setBy>>
          \/ /\ m = "invalidate"
             /\ \E rm \in RM :
                  /\ InvalidateCache(r, rm)
                  \* a failed removal of an existing file is logged
                  /\ call' = [call EXCEPT ![p].at = "unlock",
                                 ![p].res = IF disk[r] # NoFile /\ ~rm
                                            THEN "warned" ELSE "ok"]
          \/ /\ m = "load"
             /\ LoadBranch(r) \in {"nofile", "corrupt"}
             /\ call' = [call EXCEPT ![p].at = "unlock",
                            ![p].res = IF LoadBranch(r) = "nofile"
                                       THEN "refresh" ELSE "ok"]
             /\ UNCHANGED <<mem, disk, setBy>>
          \/ /\ m = "load"
             /\ LoadBranch(r) = "expired"
             /\ \E rm \in RM : disk' = [disk EXCEPT ![r] = Remove(@, rm)]
             /\ call' = [call EXCEPT ![p].at = "unlock", ![p].res = "refresh"]
             /\ UNCHANGED <<mem, setBy>>
          \/ /\ m = "load"
             /\ LoadBranch(r) = "valid"
             /\ mem' = [mem EXCEPT ![r] = DecodeCache(disk[r]).cache]
             /\ setBy' = [setBy EXCEPT ![r] = NoSet]
             /\ call' = [call EXCEPT ![p].at = "unlock", ![p].res = "ok"]
             /\ UNCHANGED disk
    /\ UNCHANGED <<flt, heap, now, idfile, argoServer, cpc, changed, cfetch, cold, kept,
                   saved, hpc, hres, rw>>
\* The body of the method, run with the mutex held.
CallBody(p, W, RM) ==
    /\ call[p].at = "locked"
    /\ LET r == call[p].r
           m == call[p].in
       IN \/ /\ m = "set"
             /\ \E items \in ItemLists, w \in W,
                   ttl \in IF call[p].op = "set" THEN SetTTLs ELSE {TTL(r)} :
                  /\ IF call[p].op = "set" THEN SetCache(r, items, ttl, w)
                     ELSE RefreshSucceeded(r, items, w)
                  /\ call' = [call EXCEPT ![p].at = "unlock",
                                          ![p].items = items, ![p].ttl = ttl,
                                          ![p].res = "ok"]
          \/ /\ m = "get"
             /\ call' = [call EXCEPT ![p].at = "unlock", ![p].res = "ok",
                                     ![p].got = GetCached(r)]
             /\ UNCHANGED <<mem, disk, setBy>>
          \/ /\ m = "invalidate"
             /\ \E rm \in RM :
                  /\ InvalidateCache(r, rm)
                  \* a failed removal of an existing file is logged
                  /\ call' = [call EXCEPT ![p].at = "unlock",
                                 ![p].res = IF disk[r] # NoFile /\ ~rm
                                            THEN "warned" ELSE "ok"]
          \/ /\ m = "load"
             /\ LoadBranch(r) \in {"nofile", "corrupt"}
             /\ call' = [call EXCEPT ![p].at = "unlock",
                            ![p].res = IF LoadBranch(r) = "nofile"
                                       THEN "refresh" ELSE "ok"]
             /\ UNCHANGED <<mem, disk, setBy>>
          \/ /\ m = "load"
             /\ LoadBranch(r) = "expired"
             /\ \E rm \in RM : disk' = [disk EXCEPT ![r] = Remove(@, rm)]
             /\ call' = [call EXCEPT ![p].at = "unlock", ![p].res = "refresh"]
             /\ UNCHANGED <<mem, setBy>>
          \/ /\ m = "load"
             /\ LoadBranch(r) = "valid"
             /\ mem' = [mem EXCEPT ![r] = DecodeCache(disk[r]).cache]
             /\ setBy' = [setBy EXCEPT ![r] = NoSet]
             /\ call' = [call EXCEPT ![p].at = "unlock", ![p].res = "ok"]
             /\ UNCHANGED disk
    /\ UNCHANGED <<flt, heap, now, idfile, argoServer, cpc, changed, cfetch, cold, kept,
                   saved, hpc, hres, rw>>

CallReleaseKeepsLockForRefresh(p) ==
    /\ call[p].at = "unlock"
    /\ IF call[p].res = "refresh" THEN UNCHANGED rw
       ELSE IF call[p].in = "get" THEN RUnlock(p, call[p].r)
       ELSE Unlock(p, call[p].r)
    /\ call' = [call EXCEPT ![p].at = IF call[p].res = "refresh"
                                      THEN "refresh" ELSE "done"]
    /\ UNCHANGED <<flt, heap, now, mem, disk, idfile, argoServer, cpc, changed, cfetch,
                   cold, kept, saved, setBy, hpc, hres>>
\* The mutex is released; a load that found no usable file then calls
\* Refresh, every other method returns.
CallRelease(p) ==
    /\ call[p].at = "unlock"
    /\ IF call[p].in = "get" THEN RUnlock(p, call[p].r)
       ELSE Unlock(p, call[p].r)
    /\ call' = [call EXCEPT ![p].at = IF call[p].res = "refresh"
                                      THEN "refresh" ELSE "done"]
    /\ UNCHANGED <<flt, heap, now, mem, disk, idfile, argoServer, cpc, changed, cfetch,
                   cold, kept, saved, setBy, hpc, hres>>

Call(p, W, RM) ==
    \/ CallBegin(p)
    \/ CallRefreshBegin(p)
    \/ CallFetchOk(p)
    \/ CallFetchErr(p)
    \/ CallAcquire(p)
    \/ CallBody(p, W, RM)
    \/ CallRelease(p)

\* What construction can leave for one resource type: nothing (the startup
\* fetch failed), a corrupt file and nothing in memory (the unmarshal
\* failed), or the entry the startup fetch cached, with its file.
Constructed ==
    {[mem |-> Nil, disk |-> NoFile], [mem |-> Nil, disk |-> Corrupt]}
    \cup {[mem |-> CacheEntry(<<1>>, 0, TTL(r)),
           disk |-> EncodeCache(CacheEntry(<<1>>, 0, TTL(r)))] : r \in R}
InitConstructed ==
    /\ now = 0
    /\ \E c \in [R -> Constructed] :
         /\ mem = [r \in R |-> c[r].mem]
         /\ disk = [r \in R |-> c[r].disk]
    /\ idfile = [kind |-> "json", server |-> "a:443", saved_at |-> 0]
    /\ argoServer = "a:443"
    /\ cpc = "done"
    /\ changed = FALSE
    /\ cfetch = [r \in R |-> NoFetch]
    /\ cold = FALSE
    /\ kept = NoneKept
    /\ saved = NotSaved
    /\ setBy = [r \in R |-> NoSet]
    /\ hpc = [h \in H |-> Idle]
    /\ hres = NoResult
    /\ rw = [r \in R |-> Free]
    /\ call = [p \in P |-> NoCall]
    /\ flt = NoFilterCall
    /\ heap = NoHeap

\* Concurrent callers of the cache methods on a constructed context.
NextLock == Tick \/ \E p \in P : Call(p, {"ok"}, BOOLEAN)
SpecLock == InitConstructed /\ [][NextLock]_vars
\* The scheduler runs every goroutine that can take a step.
SpecLockFair == SpecLock /\ \A p \in P : WF_vars(Call(p, {"ok"}, BOOLEAN))

\* The steps of a call that do not wait for the upstream.
CallLocal(p, W, RM) ==
    \/ CallBegin(p)
    \/ CallRefreshBegin(p)
    \/ CallAcquire(p)
    \/ CallBody(p, W, RM)
    \/ CallRelease(p)
\* The upstream may never answer the List call of the first caller
\* (context.Background() has no deadline); the scheduler runs every
\* goroutine that can take a step, and the second caller's List call,
\* if it makes one, returns.
SpecHung ==
    /\ SpecLock
    /\ WF_vars(CallLocal("p1", {"ok"}, BOOLEAN))
    /\ WF_vars(Call("p2", {"ok"}, BOOLEAN))

\* --------------------------- deleteAllCaches, statement by statement
\* deleteAllCaches called on a context that holds entries (as its tests
\* call it): the loop removes the two cache files with no mutex held, then
\* each pointer is cleared under the mutex of its cache.
CacheFiles == <<"clusters", "applications">>

\* where the other callers are when this one begins: none has begun
\* ("first"), all have returned ("last"), or one is inside a call
Others(p) ==
    IF \A q \in P \ {p} : call[q].at = "idle" THEN "first"
    ELSE IF \A q \in P \ {p} : call[q].at = "done" THEN "last"
    ELSE "overlap"

DeleteAllBegin(p) ==
    /\ cpc = "done"
    /\ call[p].at = "idle"
    /\ call' = [call EXCEPT ![p] =
                  [NoCall EXCEPT !.op = "deleteAll", !.in = "deleteAll",
                                 !.r = CacheFiles[1], !.at = "da_remove",
                                 !.res = Others(p)]]
    /\ kept' = NoneKept
    /\ UNCHANGED <<flt, heap, now, mem, disk, idfile, argoServer, cpc, changed, cfetch,
                   cold, saved, setBy, hpc, hres, rw>>

\* one iteration of the loop: os.Remove of a cache file, a failure other
\* than "not exist" being logged
DeleteAllRemove(p, RM) ==
    /\ call[p].at = "da_remove"
    /\ LET r == call[p].r IN
       /\ \E rm \in RM :
            /\ disk' = [disk EXCEPT ![r] = Remove(@, rm)]
            /\ kept' = IF disk[r] # NoFile /\ ~rm THEN kept \cup {r} ELSE kept
       /\ call' = [call EXCEPT
                     ![p].r = IF r = CacheFiles[1] THEN CacheFiles[2]
                              ELSE CacheFiles[1],
                     ![p].at = IF r = CacheFiles[1] THEN "da_remove"
                               ELSE "da_lock"]
    /\ UNCHANGED <<flt, heap, now, mem, idfile, argoServer, cpc, changed, cfetch, cold,
                   saved, setBy, hpc, hres, rw>>

\* ctx.clusterCacheMutex.Lock() / ctx.applicationCacheMutex.Lock()
DeleteAllLock(p) ==
    /\ call[p].at = "da_lock"
    /\ Lock(p, call[p].r)
    /\ call' = [call EXCEPT ![p].at = "da_clear"]
    /\ UNCHANGED <<flt, heap, now, mem, disk, idfile, argoServer, cpc, changed, cfetch,
                   cold, kept, saved, setBy, hpc, hres>>

\* ctx.clusterCache = nil / ctx.applicationCache = nil
DeleteAllClearSkips(p) ==
    /\ call[p].at = "da_clear"
    /\ call' = [call EXCEPT ![p].at = "da_unlock"]
    /\ UNCHANGED <<mem, setBy>>
    /\ UNCHANGED <<flt, heap, now, disk, idfile, argoServer, cpc, changed, cfetch, cold,
                   kept, saved, hpc, hres, rw>>
DeleteAllClear(p) ==
    /\ call[p].at = "da_clear"
    /\ mem' = [mem EXCEPT ![call[p].r] = Nil]
    /\ setBy' = [setBy EXCEPT ![call[p].r] = NoSet]
    /\ call' = [call EXCEPT ![p].at = "da_unlock"]
    /\ UNCHANGED <<flt, heap, now, disk, idfile, argoServer, cpc, changed, cfetch, cold,
                   kept, saved, hpc, hres, rw>>

DeleteAllUnlockSkipsFirst(p) ==
    /\ call[p].at = "da_unlock"
    /\ IF call[p].r = CacheFiles[1] THEN UNCHANGED rw
       ELSE Unlock(p, call[p].r)
    /\ call' = [call EXCEPT
                  ![p].r = IF call[p].r = CacheFiles[1] THEN CacheFiles[2]
                           ELSE call[p].r,
                  ![p].at = IF call[p].r = CacheFiles[1] THEN "da_lock"
                            ELSE "done"]
    /\ UNCHANGED <<flt, heap, now, mem, disk, idfile, argoServer, cpc, changed, cfetch,
                   cold, kept, saved, setBy, hpc, hres>>
\* the Unlock of one cache; after the last one deleteAllCaches returns
DeleteAllUnlock(p) ==
    /\ call[p].at = "da_unlock"
    /\ Unlock(p, call[p].r)
    /\ call' = [call EXCEPT
                  ![p].r = IF call[p].r = CacheFiles[1] THEN CacheFiles[2]
                           ELSE call[p].r,
                  ![p].at = IF call[p].r = CacheFiles[1] THEN "da_lock"
                            ELSE "done"]
    /\ UNCHANGED <<flt, heap, now, mem, disk, idfile, argoServer, cpc, changed, cfetch,
                   cold, kept, saved, setBy, hpc, hres>>

DeleteAll(p, RM) ==
    \/ DeleteAllBegin(p)
    \/ DeleteAllRemove(p, RM)
    \/ DeleteAllLock(p)
    \/ DeleteAllClear(p)
    \/ DeleteAllUnlock(p)

\* Callers of the cache methods and of deleteAllCaches on one context.
NextDeleteAll ==
    Tick \/ \E p \in P : Call(p, {"ok"}, BOOLEAN) \/ DeleteAll(p, BOOLEAN)
SpecDeleteAll == InitConstructed /\ [][NextDeleteAll]_vars
\* The scheduler runs every goroutine that can take a step; the upstream
\* may never answer a List call.
SpecDeleteAllFair ==
    /\ SpecDeleteAll
    /\ \A p \in P : WF_vars(CallLocal(p, {"ok"}, BOOLEAN) \/ DeleteAll(p, BOOLEAN))

\* ------------------------------------------ calls of filterApplications
\* A handler calls filterApplications with the cached items and the filter
\* of its request; the call returns the filtered list.
FilterReturn ==
    /\ flt.at = "called"
    /\ flt' = [flt EXCEPT !.at = "returned",
                          !.out = filterApplications(flt.apps, flt.input)]
    /\ UNCHANGED <<now, mem, disk, idfile, argoServer, cpc, changed, cfetch,
                   cold, kept, saved, setBy, hpc, hres, rw, call, heap>>

InitFilter ==
    /\ now = 0
    /\ mem = [r \in R |-> Nil]
    /\ disk = [r \in R |-> NoFile]
    /\ idfile = [kind |-> "json", server |-> "a:443", saved_at |-> 0]
    /\ argoServer = "a:443"
    /\ cpc = "done"
    /\ changed = FALSE
    /\ cfetch = [r \in R |-> NoFetch]
    /\ cold = FALSE
    /\ kept = NoneKept
    /\ saved = NotSaved
    /\ setBy = [r \in R |-> NoSet]
    /\ hpc = [h \in H |-> Idle]
    /\ hres = NoResult
    /\ rw = [r \in R |-> Free]
    /\ call = [p \in P |-> NoCall]
    /\ \E apps \in AppLists, input \in Inputs :
         flt = [at |-> "called", apps |-> apps, input |-> input, out |-> <<>>]
    /\ heap = NoHeap

NextFilter == FilterReturn
SpecFilter == InitFilter /\ [][NextFilter]_vars

\* ------------------------------------- requests on a degraded context
\* What a construction whose startup fetch failed, or that found a corrupt
\* cache file, leaves for one resource type: nothing in memory, and no file
\* or the corrupt file.
InitDegraded ==
    /\ now = 0
    /\ mem = [r \in R |-> Nil]
    /\ disk \in [R -> {NoFile, Corrupt}]
    /\ idfile = [kind |-> "json", server |-> "a:443", saved_at |-> 0]
    /\ argoServer = "a:443"
    /\ cpc = "done"
    /\ changed = FALSE
    /\ cfetch = [r \in R |-> NoFetch]
    /\ cold = FALSE
    /\ kept = NoneKept
    /\ saved = NotSaved
    /\ setBy = [r \in R |-> NoSet]
    /\ hpc = [h \in H |-> Idle]
    /\ hres = NoResult
    /\ rw = [r \in R |-> Free]
    /\ call = [p \in P |-> NoCall]
    /\ flt = NoFilterCall
    /\ heap = NoHeap

\* Requests on such a context, on a disk whose writes can fail.
NextDegraded == Tick \/ Handler(WriteOutcomes)
SpecDegraded == InitDegraded /\ [][NextDegraded]_vars

\* ------------------------ the whole cache API on a constructed context
\* server_config.json as a construction can leave it: written, or (the write
\* failed) missing, unreadable, truncated or still naming another endpoint
IdentityFiles ==
    {NoFile, Unreadable, Corrupt}
    \cup {[kind |-> "json", server |-> s, saved_at |-> 0] : s \in Servers}

\* deleteAllCaches called on a constructed context
ApiDeleteAllRemovesIdentity(RM) ==
    /\ cpc = "done"
    /\ \E rmC \in RM, rmA \in RM : deleteAllCaches(rmC, rmA)
    /\ idfile' = NoFile
    /\ UNCHANGED <<now, argoServer, cpc, changed, cfetch, cold, saved, hpc,
                   hres>>
    /\ UNCHANGED <<rw, call, flt, heap>>
ApiDeleteAll(RM) ==
    /\ cpc = "done"
    /\ \E rmC \in RM, rmA \in RM : deleteAllCaches(rmC, rmA)
    /\ UNCHANGED <<now, idfile, argoServer, cpc, changed, cfetch, cold, saved, hpc,
                   hres>>
    /\ UNCHANGED <<rw, call, flt, heap>>

InitApi ==
    /\ now = 0
    /\ mem = [r \in R |-> Nil]
    /\ disk = [r \in R |-> NoFile]
    /\ idfile \in IdentityFiles
    /\ argoServer = "a:443"
    /\ cpc = "done"
    /\ changed = FALSE
    /\ cfetch = [r \in R |-> NoFetch]
    /\ cold = FALSE
    /\ kept = NoneKept
    /\ saved = NotSaved
    /\ setBy = [r \in R |-> NoSet]
    /\ hpc = [h \in H |-> Idle]
    /\ hres = NoResult
    /\ rw = [r \in R |-> Free]
    /\ call = [p \in P |-> NoCall]
    /\ flt = NoFilterCall
    /\ heap = NoHeap

\* the requests one client sends, each after the answer to the one before
Requests(h, W) ==
    \/ \E r \in R : HandlerStart(h, r)
    \/ HandlerFetchOk(h, W)
    \/ HandlerFetchErr(h)
    \/ HandlerGet2(h)

\* Requests and direct calls of every cache method after construction, on a
\* disk that works.
NextApi ==
    \/ Tick
    \/ Requests("h1", {"ok"})
    \/ ApiSet({"ok"})
    \/ ApiInvalidate({TRUE})
    \/ ApiDeleteAll({TRUE})
SpecApi == InitApi /\ [][NextApi]_vars

\* ------------------------ repeated calls of set, invalidate and refresh
\* A caller invokes one of the methods ops on a resource type.
CallBeginOf(p, ops) ==
    /\ cpc = "done"
    /\ call[p].at = "idle"
    /\ \E op \in ops, r \in R :
         call' = [call EXCEPT ![p] =
                    [NoCall EXCEPT !.op = op, !.r = r,
                        !.in = IF op = "refresh" THEN "none" ELSE op,
                        !.at = IF op = "refresh" THEN "refresh" ELSE "acquire"]]
    /\ UNCHANGED <<flt, heap, now, mem, disk, idfile, argoServer, cpc, changed, cfetch,
                   cold, kept, saved, setBy, hpc, hres, rw>>

\* The call has returned; the caller goes on to its next call.
CallReturn(p) ==
    /\ call[p].at = "done"
    /\ call' = [call EXCEPT ![p] = NoCall]
    /\ UNCHANGED <<flt, heap, now, mem, disk, idfile, argoServer, cpc, changed, cfetch,
                   cold, kept, saved, setBy, hpc, hres, rw>>

CallsOf(p, ops, W, RM) ==
    \/ CallBeginOf(p, ops)
    \/ CallRefreshBegin(p)
    \/ CallFetchOk(p)
    \/ CallFetchErr(p)
    \/ CallAcquire(p)
    \/ CallBody(p, W, RM)
    \/ CallRelease(p)
    \/ CallReturn(p)

\* Two goroutines calling set, invalidate and refresh again and again on
\* a context that starts with no entry and no file, on a disk that works.
MirrorOps == {"set", "invalidate", "refresh"}
NextMirror == Tick \/ \E p \in P : CallsOf(p, MirrorOps, {"ok"}, {TRUE})
SpecMirror == InitRunning /\ [][NextMirror]_vars

\* ---------------------------------- the cache entries as heap objects
\* The caller's pointers that refer to the struct cache r points to.
Aliases(r) == {p \in P : ~heap[p].nil /\ heap[p].of = r /\ heap[p].current}

\* GetCachedClusters, as the pointer it returns
GetCachedPtr(r) ==
    IF GetCached(r) = Nil THEN NilPtr ELSE Ptr(r, mem[r])

\* SetClusterCache: ctx.clusterCache = &ClusterCache{Items, CachedAt,
\* ExpiresAt}, a new struct, then the write of the file
SetCacheInPlace(r, items, ttl, w) ==
    /\ SetCache(r, items, ttl, w)
    /\ heap' = [p \in P |->
                  IF p \in Aliases(r)
                  THEN [heap[p] EXCEPT
                          !.cell = CacheEntry(items, now, now + ttl)]
                  ELSE heap[p]]
SetCacheNew(r, items, ttl, w) ==
    /\ SetCache(r, items, ttl, w)
    /\ heap' = [p \in P |->
                  IF p \in Aliases(r) THEN [heap[p] EXCEPT !.current = FALSE]
                  ELSE heap[p]]

\* InvalidateClusterCache: ctx.clusterCache = nil, then the removal
InvalidateCacheNil(r, rm) ==
    /\ InvalidateCache(r, rm)
    /\ heap' = [p \in P |->
                  IF p \in Aliases(r) THEN [heap[p] EXCEPT !.current = FALSE]
                  ELSE heap[p]]

\* A caller calls get() and keeps the pointer it returns.
SnapGet(p) ==
    /\ cpc = "done"
    /\ \E r \in R :
         /\ call' = [call EXCEPT ![p] =
                       [NoCall EXCEPT !.op = "get", !.in = "get", !.r = r,
                                      !.at = "done", !.res = "ok",
                                      !.got = GetCached(r)]]
         /\ heap' = [heap EXCEPT ![p] = GetCachedPtr(r)]
    /\ UNCHANGED <<now, mem, disk, idfile, argoServer, cpc, changed, cfetch, cold,
                   kept, saved, setBy, hpc, hres, rw, flt>>

SnapSet ==
    /\ cpc = "done"
    /\ \E r \in R, items \in ItemLists, ttl \in SetTTLs :
         SetCacheNew(r, items, ttl, "ok")
    /\ UNCHANGED <<now, idfile, argoServer, cpc, changed, cfetch, cold, kept, saved,
                   hpc, hres, rw, call, flt>>

\* A refresh whose List call returned items (a failed one changes nothing).
SnapRefresh ==
    /\ cpc = "done"
    /\ \E r \in R, items \in ItemLists : SetCacheNew(r, items, TTL(r), "ok")
    /\ UNCHANGED <<now, idfile, argoServer, cpc, changed, cfetch, cold, kept, saved,
                   hpc, hres, rw, call, flt>>

SnapInvalidate ==
    /\ cpc = "done"
    /\ \E r \in R : InvalidateCacheNil(r, TRUE)
    /\ UNCHANGED <<now, idfile, argoServer, cpc, changed, cfetch, cold, kept, saved,
                   hpc, hres, rw, call, flt>>

\* A caller that keeps the entry get() gave it while sets, refreshes and
\* invalidations go on.
Holders == {"p1"}
NextSnap ==
    \/ Tick
    \/ \E p \in Holders : SnapGet(p)
    \/ SnapSet
    \/ SnapRefresh
    \/ SnapInvalidate
SpecSnap == InitRunning /\ [][NextSnap]_vars

\* --------------------- an invalidate that arrives during a refresh
\* A caller invokes invalidate on a cache while the List call of another
\* caller's refresh of that cache is in flight.
CallBeginInvalidateDuringFetch(q) ==
    /\ cpc = "done"
    /\ call[q].at = "idle"
    /\ \E p \in P \ {q} :
         /\ call[p].op = "refresh" /\ call[p].at = "fetch"
         /\ call' = [call EXCEPT ![q] =
                       [NoCall EXCEPT !.op = "invalidate", !.in = "invalidate",
                                      !.r = call[p].r, !.at = "acquire"]]
    /\ UNCHANGED <<flt, heap, now, mem, disk, idfile, argoServer, cpc, changed,
                   cfetch, cold, kept, saved, setBy, hpc, hres, rw>>

\* the steps of a call that has begun
CallSteps(p, W, RM) ==
    \/ CallRefreshBegin(p)
    \/ CallFetchOk(p)
    \/ CallFetchErr(p)
    \/ CallAcquire(p)
    \/ CallBody(p, W, RM)
    \/ CallRelease(p)

\* One refresh, and one invalidate of the same cache that is called while
\* the refresh waits for the upstream.
NextStale ==
    \/ Tick
    \/ CallBeginOf("p1", {"refresh"})
    \/ CallBeginInvalidateDuringFetch("p2")
    \/ \E p \in P : CallSteps(p, {"ok"}, BOOLEAN)
SpecStale == InitConstructed /\ [][NextStale]_vars

\* ====================================================================
\* Claims
\* ====================================================================

\* The entry a Set call is expected to have left, from its recorded arguments
SetEntry(r) ==
    CacheEntry(setBy[r].items, setBy[r].at, setBy[r].at + setBy[r].ttl)

C3_RefreshErrorPropagates ==
    hres.refresh = "failed" =>
        /\ hres.kind = "error"
        /\ hres.items = <<>>
        /\ hres.err \in
             {Wrap(RefreshWrapMsg(hres.r), RefreshListErr(hres.r)),
              Wrap(RefreshWrapMsg(hres.r), RefreshClientErr(hres.r))}

\* C3 witness: the upstream List call failed for a request while an expired
\* entry with items was in memory, and the request returned the error.
C3_Witness ==
    /\ hres.refresh = "failed"
    /\ hres.err = Wrap(RefreshWrapMsg(hres.r), RefreshListErr(hres.r))
    /\ mem[hres.r] # Nil
    /\ mem[hres.r].items # <<>>
    /\ GetCached(hres.r) = Nil

\* C4: a step in which a refresh fails (the List call returns an error, or
\* the client creation fails) returns an error and leaves the in-memory
\* entry and the disk file of every cache exactly as they were.
C4_FailedRefreshKeepsCache ==
    [][\A h \in H :
          \/ HandlerFetchErr(h)
          \/ \E r \in R : /\ GetCached(r) = Nil
                          /\ HandlerStart(h, r)
                          /\ hpc'[h].at = "idle"
          => /\ hres'.kind = "error"
             /\ hres'.refresh = "failed"
             /\ UNCHANGED <<mem, disk>>]_vars

\* C4 witness: a refresh failed while the cache held a still-valid entry
\* (cached by a concurrent request), and get() still returns that entry.
C4_Witness ==
    /\ hres.refresh = "failed"
    /\ GetCached(hres.r) # Nil
    /\ disk[hres.r] = EncodeCache(mem[hres.r])

\* C5 (as stated): after a successful refresh the handler's second get() is
\* never absent: the "unexpectedly empty after refresh" error is never
\* returned.
C5_AsStated ==
    hres.refresh = "ok" => hres.kind = "items"

\* C5 (amended): after a successful refresh the handler's second get()
\* returns a present entry unless, between the refresh's set and that get,
\* a concurrent invalidate emptied the cache or more than the TTL elapsed;
\* only then is the "unexpectedly empty after refresh" error returned.
C5_PresentUnlessInvalidatedOrExpired ==
    [][\A h \in H :
          (hpc[h].at = "get2" /\ hpc'[h].at = "idle") =>
              /\ hres'.refresh = "ok"
              /\ IF mem[hpc[h].r] = Nil \/ now > hpc[h].t + TTL(hpc[h].r)
                 THEN TRUE
                 ELSE /\ hres'.kind = "items"
                      /\ hres'.items = mem[hpc[h].r].items]_vars

\* C5 witness: a request got its items from the second get() after its own
\* refresh although a concurrent request had replaced the entry meanwhile.
C5_Witness ==
    /\ hres.refresh = "ok" /\ hres.kind = "items"
    /\ mem[hres.r] # Nil
    /\ mem[hres.r].cached_at = now
    /\ now > 0
    /\ \E h \in H : hpc[h].at = "get2" /\ hpc[h].r = hres.r

\* C6: hasServerChanged returns true exactly when the identity file exists,
\* is readable, decodes, and records an endpoint other than the current
\* one; it returns false when the file is missing, unreadable or corrupt or
\* records the current endpoint; it changes neither the identity file nor
\* any cache (memory or disk).
C6_HasChangedIff ==
    [][CtorHasServerChanged =>
          /\ changed' = (/\ idfile # NoFile
                         /\ idfile # Unreadable
                         /\ idfile # Corrupt
                         /\ idfile.server # argoServer)
          /\ UNCHANGED <<idfile, mem, disk>>]_vars

\* C6 witness: hasServerChanged has just returned true on a saved identity
\* that differs from the current endpoint.
C6_Witness ==
    /\ cpc = "deleteAll" /\ changed
    /\ idfile.kind = "json" /\ idfile.server # argoServer

\* C7 (as stated): when the saved identity differs from the current
\* endpoint, every cache is empty in memory when construction returns.
C7_AsStated ==
    (cpc = "ret" /\ changed) => \A r \in R : mem[r] = Nil

\* C7 (amended): when the saved identity differs from the current endpoint,
\* hasChanged returns true and the invalidation leaves every cache empty in
\* memory and without a file (unless the removal fails) before the caches
\* are loaded; the loads then fetch, so when construction returns a cache
\* whose file was removed is empty only if its fetch failed and otherwise
\* holds the entry fetched during this construction, never an older one.
C7_ChangedInvalidatesThenFetches ==
    /\ (cpc = "save" /\ changed) =>
          \A r \in R : mem[r] = Nil /\ (r \notin kept => disk[r] = NoFile)
    /\ (cpc = "ret" /\ changed) =>
          \A r \in R \ kept :
              /\ cfetch[r].n = 1
              /\ IF cfetch[r].res = "ok"
                 THEN mem[r] = CacheEntry(cfetch[r].items, setBy[r].at,
                                          setBy[r].at + TTL(r))
                 ELSE mem[r] = Nil

\* C7 witness: construction with a changed endpoint returns with one cache
\* holding a freshly fetched entry and the other one empty.
C7_Witness ==
    /\ cpc = "ret" /\ changed /\ kept = {}
    /\ mem["clusters"] # Nil /\ cfetch["clusters"].res = "ok"
    /\ mem["applications"] = Nil

\* C8: when the saved identity equals the current endpoint and a cache file
\* holds a decodable, unexpired entry, the load adopts exactly that entry
\* (same items, cached_at, expires_at) into memory and starts no fetch.
C8_ValidFileAdopted ==
    [][\A r \in R :
          (/\ cpc = LoadPc(r) /\ ~changed
           /\ disk[r].kind = "json"
           /\ now <= disk[r].expires_at
           /\ CtorLoad) =>
              /\ mem'[r] = CacheEntry(disk[r].items, disk[r].cached_at,
                                      disk[r].expires_at)
              /\ cpc' = AfterLoadPc(r)
              /\ cfetch'[r].n = 0
              /\ UNCHANGED disk]_vars

\* C8 witness: construction with an unchanged identity returns with an
\* adopted entry with items, for which no fetch was made.
C8_Witness ==
    /\ cpc = "ret" /\ ~changed /\ ~cold
    /\ idfile.kind = "json" /\ idfile.server = argoServer
    /\ \E r \in R : /\ mem[r] # Nil /\ mem[r].items # <<>>
                    /\ cfetch[r].n = 0
                    /\ disk[r] = EncodeCache(mem[r])
                    /\ mem[r].cached_at < now

\* C9 (as stated): on a cold start (no identity file, no cache file)
\* construction makes exactly one fetch per resource type and, for each
\* fetch that succeeded, returns with a present, unexpired entry holding
\* the fetched items.
C9_AsStated ==
    (cpc = "ret" /\ cold) =>
        \A r \in R :
            /\ cfetch[r].n = 1
            /\ cfetch[r].res = "ok" =>
                  /\ GetCached(r) # Nil
                  /\ GetCached(r).items = cfetch[r].items

\* C9 (amended): on a cold start construction makes exactly one fetch per
\* resource type and, for each fetch that succeeded, returns with a present
\* entry holding the fetched items whose expires_at is its cached_at plus
\* the TTL; the entry is unexpired when construction returns provided no
\* more than the TTL has elapsed since it was fetched.
C9_ColdStartFetchesOnce ==
    (cpc = "ret" /\ cold) =>
        \A r \in R :
            /\ cfetch[r].n = 1
            /\ cfetch[r].res = "ok" =>
                  /\ mem[r] # Nil
                  /\ mem[r].items = cfetch[r].items
                  /\ mem[r].expires_at = mem[r].cached_at + TTL(r)
                  /\ (now <= mem[r].cached_at + TTL(r) => GetCached(r) = mem[r])

\* C9 witness: a cold start returned with both fetches succeeded and both
\* entries present and unexpired.
C9_Witness ==
    /\ cpc = "ret" /\ cold
    /\ \A r \in R : cfetch[r].res = "ok" /\ GetCached(r) # Nil
    /\ mem["clusters"].items # <<>>

\* C10: construction always completes: while it runs, some step of it is
\* enabled whatever failed before (directory creation, identity write,
\* corrupt file, refresh), every step moves it forward, and it returns
\* only after the load of the application cache, which follows the load of
\* the cluster cache whatever that one's outcome.
CtorRank(pc) ==
    CASE pc = "down" -> 0
      [] pc = "mkdir" -> 1
      [] pc = "hasChanged" -> 2
      [] pc = "deleteAll" -> 3
      [] pc = "save" -> 4
      [] pc = "load_clusters" -> 5
      [] pc = "refresh_clusters" -> 6
      [] pc = "fetch_clusters" -> 7
      [] pc = "load_applications" -> 8
      [] pc = "refresh_applications" -> 9
      [] pc = "fetch_applications" -> 10
      [] pc = "ret" -> 11
      [] pc = "done" -> 12
      [] OTHER -> 99
C10_ConstructionCompletes ==
    /\ [](cpc \notin {"down", "done"} =>
            /\ CtorRank(cpc) < 12
            /\ ENABLED Ctor)
    /\ [][/\ Ctor => CtorRank(cpc') > CtorRank(cpc)
          /\ (cpc' = "ret" /\ cpc # "ret") =>
                cpc \in {"load_applications", "refresh_applications",
                         "fetch_applications"}
          /\ (cpc' = "load_applications" /\ cpc # cpc') =>
                cpc \in {"load_clusters", "refresh_clusters",
                         "fetch_clusters"}]_vars

\* C10 witness: construction returned a context although the identity write
\* failed, the cluster fetch failed and the application cache file was
\* corrupt.
C10_Witness ==
    /\ cpc = "done"
    /\ idfile # [kind |-> "json", server |-> argoServer, saved_at |-> now]
    /\ idfile.kind # "json"
    /\ mem["clusters"] = Nil /\ disk["clusters"] = NoFile
    /\ mem["applications"] = Nil /\ disk["applications"] = Corrupt
\* C11 (as stated): at every instant at most one upstream fetch is in
\* flight per resource type.
C11_AsStated ==
    \A r \in R :
        Cardinality({h \in H : hpc[h].at = "fetch" /\ hpc[h].r = r}) <= 1

\* C11 (amended): several fetches can be in flight for one resource type,
\* one per concurrent request that missed (the fetch runs with no lock
\* held); a request sends a fetch only from rest and only when its own
\* get() was absent, so each request has at most one fetch in flight.
C11_FetchOnlyOnMiss ==
    [][\A h \in H :
          (hpc[h].at # "fetch" /\ hpc'[h].at = "fetch") =>
              /\ hpc[h].at = "idle"
              /\ GetCached(hpc'[h].r) = Nil
              /\ UNCHANGED <<mem, disk, rw>>]_vars

\* C11 witness: two requests have a fetch in flight for the same resource
\* type at the same instant.
C11_Witness ==
    \E r \in R : \A h \in H : hpc[h].at = "fetch" /\ hpc[h].r = r

\* Every caller has made its call and returned.
AllDone == \A p \in P : call[p].at = "done"

\* The entry of cache r is absent, or the one it held before the calls, or
\* one that a completed set call made from its arguments.
FinalEntry(r) ==
    \/ mem[r] = Nil
    \/ mem[r] = CacheEntry(<<1>>, 0, TTL(r))
    \/ \E p \in P :
         /\ call[p].in = "set" /\ call[p].r = r /\ call[p].res = "ok"
         /\ mem[r].items = call[p].items
         /\ mem[r].expires_at = mem[r].cached_at + call[p].ttl
         /\ mem[r].cached_at <= now

\* C12: every interleaving of concurrent calls of the cache methods ends
\* with every call completed (no deadlock), every mutex free, and each
\* cache absent or holding an entry whose items were passed to one of the
\* set calls and whose expires_at is its cached_at plus that call's TTL.
C12_ConcurrentCallsComplete ==
    <>[](/\ AllDone
         /\ \A r \in R : rw[r] = Free /\ FinalEntry(r))

\* C12 witness: a set and an invalidate ran concurrently on one cache, both
\* returned, and the cache holds the entry of the set.
C12_Witness ==
    /\ AllDone
    /\ \E p \in P, q \in P :
         /\ call[p].op = "set" /\ call[q].op = "invalidate"
         /\ call[p].r = call[q].r
         /\ call[p].items = <<>> /\ call[p].ttl = 0
         /\ mem[call[p].r] = CacheEntry(<<>>, now, now)

\* The callers inside the exclusive section of cache r's mutex.
Writers(r) ==
    {p \in P : /\ call[p].at \in {"locked", "unlock"}
               /\ call[p].r = r /\ call[p].in # "get"}

\* C13: the sets of one cache are ordered by the order in which they take
\* the exclusive lock: at most one caller is inside it, the entry and the
\* file change only in a step of the caller holding it, and when a set
\* releases it the entry is exactly the one made from that set's arguments
\* (a later set replaces the earlier entry wholesale); after an invalidate
\* it is absent.
C13_SetsOrderedByLock ==
    /\ [](\A r \in R :
            /\ Cardinality(Writers(r)) <= 1
            /\ \A p \in Writers(r) : rw[r] = [w |-> p, rd |-> {}])
    /\ [][\A r \in R :
            /\ rw[r].w = "none" => mem'[r] = mem[r] /\ disk'[r] = disk[r]
            /\ \A p \in P :
                 (rw[r].w = p /\ rw'[r].w = "none") =>
                    /\ call[p].in = "set" =>
                         /\ mem'[r] # Nil
                         /\ mem'[r].items = call[p].items
                         /\ mem'[r].expires_at
                               = mem'[r].cached_at + call[p].ttl
                         /\ GetCached(r)' \in {Nil, mem'[r]}
                    /\ call[p].in = "invalidate" => mem'[r] = Nil]_vars

\* C13 witness: two sets with different items ran on a cache that held an
\* entry; both returned and get() returns the items of one of them only.
C13_Witness ==
    /\ AllDone
    /\ \E r \in R :
         /\ \A p \in P : call[p].op = "set" /\ call[p].r = r
         /\ call["p1"].items = <<1>> /\ call["p2"].items = <<>>
         /\ disk[r] = EncodeCache(mem[r])
         /\ GetCached(r) # Nil /\ GetCached(r).items = <<>>

\* C14: the two caches are independent: no step of a set, get, invalidate,
\* refresh or load on one resource type changes the in-memory entry (so
\* its expiry), the disk file or the mutex of the other resource type.
C14_CachesIndependent ==
    [][\A p \in P :
          call'[p] # call[p] =>
              \A o \in R \ {call'[p].r} :
                  /\ mem'[o] = mem[o]
                  /\ disk'[o] = disk[o]
                  /\ rw'[o] = rw[o]
                  /\ GetCached(o)' = GetCached(o)]_vars

\* C14 witness: the cluster cache was invalidated and loaded (its refresh
\* failing) while the application cache kept its valid entry and its file.
C14_Witness ==
    /\ AllDone
    /\ call["p1"].op = "invalidate" /\ call["p1"].r = "clusters"
    /\ call["p2"].op = "load" /\ call["p2"].r = "clusters"
    /\ call["p2"].res = "err"
    /\ mem["clusters"] = Nil /\ disk["clusters"] = NoFile
    /\ GetCached("applications") = CacheEntry(<<1>>, 0, ApplicationCacheTTL)
    /\ disk["applications"] = EncodeCache(mem["applications"])

\* Caller p runs the body of an invalidate in this step.
InvalidateStep(p) ==
    /\ call[p].at = "locked" /\ call[p].in = "invalidate"
    /\ call'[p].at = "unlock"

\* C15 (as stated): every invalidate leaves the in-memory entry absent and
\* the disk file absent (so a second one changes nothing).
C15_AsStated ==
    [][\A p \in P :
          InvalidateStep(p) =>
              mem'[call[p].r] = Nil /\ disk'[call[p].r] = NoFile]_vars

\* C15 (amended): every invalidate leaves the in-memory entry absent, and
\* the disk file absent unless its removal fails, in which case the file
\* stays and a warning is logged; a missing file is not an error; an
\* invalidate that finds the entry and the file absent (as a successful
\* invalidate leaves them) changes nothing.
C15_InvalidateIdempotent ==
    [][\A p \in P :
          InvalidateStep(p) =>
              LET r == call[p].r IN
              /\ mem'[r] = Nil
              /\ call'[p].res = "ok" => disk'[r] = NoFile
              /\ call'[p].res # "ok" => disk'[r] = disk[r] /\ disk[r] # NoFile
              /\ disk[r] = NoFile => call'[p].res = "ok"
              /\ (mem[r] = Nil /\ disk[r] = NoFile) =>
                    UNCHANGED <<mem, disk, setBy>>]_vars

\* C15 witness: two invalidates ran on the same cache, neither failed, and
\* the entry and the file are absent.
C15_Witness ==
    /\ AllDone
    /\ \A p \in P : call[p].op = "invalidate" /\ call[p].res = "ok"
    /\ call["p1"].r = call["p2"].r
    /\ mem[call["p1"].r] = Nil /\ disk[call["p1"].r] = NoFile
    /\ \E o \in R : mem[o] # Nil

\* The entries set can build from its inputs.
Entries ==
    {CacheEntry(items, c, c + t) :
        items \in ItemLists, c \in 0..MaxTime, t \in SetTTLs}

C17_WriteFailureKeepsMemory ==
    \A r \in R :
        (setBy[r].called /\ disk[r] # EncodeCache(SetEntry(r))) =>
            /\ mem[r] = SetEntry(r)
            /\ now <= setBy[r].at + setBy[r].ttl => GetCached(r) = SetEntry(r)

\* C17 witness: the write of a set left a truncated file, and at the
\* instant of expiry get() still returns the entry with the new items.
C17_Witness ==
    \E r \in R :
        /\ setBy[r].called /\ setBy[r].ttl > 0 /\ setBy[r].items = <<1>>
        /\ disk[r] = Corrupt
        /\ now = setBy[r].at + setBy[r].ttl
        /\ GetCached(r) # Nil /\ GetCached(r).items = <<1>>
        /\ GetCached(r).cached_at = setBy[r].at

\* C18 (as stated): every in-memory entry has expires_at > cached_at.
C18_AsStated ==
    \A r \in R : mem[r] # Nil => mem[r].expires_at > mem[r].cached_at

\* C18 (amended): an entry made by set has expires_at = cached_at + ttl for
\* the TTL passed to that set, so expires_at > cached_at exactly when that
\* TTL is positive, as it is in every set made by refresh; an entry adopted
\* from a disk file has the two timestamps of the file.
C18_ExpiryIsCachedAtPlusTTL ==
    /\ [](\A r \in R :
            (mem[r] # Nil /\ setBy[r].called) =>
               /\ mem[r].cached_at = setBy[r].at
               /\ mem[r].expires_at = mem[r].cached_at + setBy[r].ttl
               /\ mem[r].expires_at > mem[r].cached_at <=> setBy[r].ttl > 0)
    /\ [][\A p \in P :
            LET r == call[p].r IN
            (call[p].at = "locked" /\ call'[p].at = "unlock") =>
               /\ (call[p].in = "set" /\ call[p].op # "set") =>
                    /\ mem'[r].cached_at = now
                    /\ mem'[r].expires_at = now + TTL(r)
                    /\ mem'[r].expires_at > mem'[r].cached_at
               /\ (call[p].in = "load" /\ mem'[r] # mem[r]) =>
                    /\ disk[r].kind = "json"
                    /\ mem'[r].cached_at = disk[r].cached_at
                    /\ mem'[r].expires_at = disk[r].expires_at]_vars

\* C18 witness: a set with TTL 0 wrote an entry and a load adopted it from
\* the file at that same instant: the entry in memory has
\* expires_at = cached_at.
C18_Witness ==
    /\ AllDone
    /\ call["p1"].op = "set" /\ call["p1"].ttl = 0
    /\ call["p2"].op = "load" /\ call["p2"].res = "ok"
    /\ call["p1"].r = call["p2"].r
    /\ setBy[call["p1"].r] = NoSet
    /\ mem[call["p1"].r] # Nil
    /\ mem[call["p1"].r].expires_at = mem[call["p1"].r].cached_at

\* C19: an empty collection is a cached value: once a set with an empty
\* item list and a positive TTL has written the entry, get() returns a
\* present entry with no items until it expires, and a list request that
\* arrives then returns the empty list from the cache, starts no fetch and
\* changes no cache.
C19_EmptyListIsCached ==
    [][\A h \in H, r \in R :
          (/\ setBy[r].called /\ setBy[r].items = <<>> /\ setBy[r].ttl > 0
           /\ now <= setBy[r].at + setBy[r].ttl
           /\ HandlerStart(h, r)) =>
              /\ GetCached(r) # Nil
              /\ GetCached(r).items = <<>>
              /\ hres' = ItemsResult(r, <<>>, "hit", "none")
              /\ hpc'[h].at = "idle"
              /\ UNCHANGED <<mem, disk>>]_vars

\* C19 witness: a request was answered from the cache with the empty list
\* that a refresh had cached, after time had passed, with no fetch in
\* flight.
C19_Witness ==
    /\ hres = ItemsResult(hres.r, <<>>, "hit", "none")
    /\ setBy[hres.r].called /\ setBy[hres.r].items = <<>>
    /\ now = setBy[hres.r].at + 1
    /\ mem[hres.r].items = <<>>
    /\ \A h \in H : hpc[h].at = "idle"

\* C20: construction saves the identity unconditionally: whatever
\* hasServerChanged returned it reaches the save, and the loads start only
\* after it; a save whose write succeeds leaves the identity file holding
\* the current endpoint and the time of the save, overwriting any previous
\* record (whose saved_at is not later); a save whose write fails leaves
\* the old file or a truncated one, and construction goes on to the loads
\* all the same; the save changes no cache.
C20_SaveOverwrites ==
    /\ [][(cpc = "save" /\ cpc' \notin {"save", "down"}) =>
             /\ cpc' = "load_clusters"
             /\ saved' \in WriteOutcomes
             /\ saved' = "ok" =>
                  /\ idfile' = [kind |-> "json", server |-> argoServer,
                                saved_at |-> now]
                  /\ idfile.kind = "json" =>
                        idfile'.saved_at >= idfile.saved_at
             /\ saved' = "unchanged" => idfile' = idfile
             /\ saved' = "partial" => idfile' = Corrupt
             /\ UNCHANGED <<mem, disk, argoServer>>]_vars
    /\ [][/\ (cpc' = "load_clusters" /\ cpc # "load_clusters") => cpc = "save"
          /\ (cpc = "hasChanged" /\ cpc' \notin {"hasChanged", "down"}) =>
                cpc' = IF changed' THEN "deleteAll" ELSE "save"
          /\ (cpc = "deleteAll" /\ cpc' \notin {"deleteAll", "down"}) =>
                cpc' = "save"
          /\ cpc # "save" => UNCHANGED idfile \/ cpc = "down"]_vars

\* C20 witness: a construction that found the identity of another endpoint
\* saved by an earlier run has overwritten it with the current endpoint
\* and a later time.
C20_Witness ==
    /\ cpc = "load_clusters" /\ changed /\ saved = "ok"
    /\ now > 0
    /\ idfile = [kind |-> "json", server |-> argoServer, saved_at |-> now]

\* deleteAllCaches run by p with no concurrent operation: every other
\* caller had returned before it began, or has not begun yet.
Alone(p) ==
    /\ call[p].op = "deleteAll"
    /\ \/ call[p].res = "last"
       \/ call[p].res = "first" /\ \A q \in P \ {p} : call[q].at = "idle"

\* Caller p returns from deleteAllCaches in this step.
DeleteAllReturns(p) ==
    /\ call[p].at = "da_unlock" /\ call[p].r = CacheFiles[2]
    /\ call'[p].at = "done"

\* C21 (as stated): deleteAllCaches run with no concurrent operation
\* leaves every cache absent in memory and every cache file absent on disk.
C21_AsStated ==
    [][\A p \in P :
          (DeleteAllReturns(p) /\ Alone(p)) =>
              \A r \in R : mem'[r] = Nil /\ disk'[r] = NoFile]_vars

\* C21 (amended): deleteAllCaches run with no concurrent operation leaves
\* every cache absent in memory, and every cache file absent on disk
\* except those whose removal failed, which stay as they were (the failure
\* is only logged); removing a file that does not exist is not an error
\* and changes nothing; it never fails: whatever the removals return it
\* goes on to clear the pointers, and run alone it finds each mutex free.
C21_InvalidateAllClears ==
    /\ [](\A p \in P :
            (call[p].at = "da_lock" /\ Alone(p)) => rw[call[p].r] = Free)
    /\ [][\A p \in P :
            /\ (DeleteAllReturns(p) /\ Alone(p)) =>
                  \A r \in R :
                     /\ mem'[r] = Nil
                     /\ r \notin kept' => disk'[r] = NoFile
                     /\ r \in kept' => disk'[r] # NoFile
            /\ (call[p].at = "da_remove" /\ call'[p] # call[p]) =>
                  LET r == call[p].r IN
                  /\ call'[p].at \in {"da_remove", "da_lock"}
                  /\ disk'[r] \in {NoFile, disk[r]}
                  /\ disk[r] = NoFile => UNCHANGED <<disk, kept>>
                  /\ UNCHANGED <<mem, rw>>]_vars

\* C21 witness: deleteAllCaches ran alone on a context holding a cluster
\* entry with its file and no application file; the removal of the cluster
\* file failed: both caches are absent in memory, the cluster file remains.
C21_Witness ==
    /\ call["p1"].op = "deleteAll" /\ call["p1"].at = "done"
    /\ call["p2"].at = "idle"
    /\ kept = {"clusters"}
    /\ \A r \in R : mem[r] = Nil
    /\ disk["clusters"] = EncodeCache(CacheEntry(<<1>>, 0, ClusterCacheTTL))
    /\ disk["applications"] = NoFile

\* An application matches every non-empty filter of the input.
Matches(a, input) ==
    /\ input.project # "" => a.project = input.project
    /\ input.namespace # "" => a.namespace = input.namespace
    /\ input.cluster # "" => a.server = input.cluster

\* C22: filterApplications returns exactly the applications of the input
\* list that match every non-empty filter (project, namespace, destination
\* cluster), in their input order; with no filter set it returns the whole
\* input list, and on an empty input list it returns an empty list.
C22_FilterMatchesAll ==
    flt.at = "returned" =>
        LET M(a) == Matches(a, flt.input) IN
        /\ flt.out = SelectSeq(flt.apps, M)
        /\ flt.input = NoFilterCall.input => flt.out = flt.apps
        /\ flt.apps = <<>> => flt.out = <<>>

\* C22 witness: a list of two applications of which only the second
\* matches the project and the cluster filter was filtered to that one.
C22_Witness ==
    /\ flt.at = "returned"
    /\ Len(flt.apps) = 2 /\ Len(flt.out) = 1
    /\ flt.input.project = "project-a" /\ flt.input.namespace = ""
    /\ flt.input.cluster = "https://kubernetes.default.svc"
    /\ flt.apps[1].project = "project-a" /\ flt.apps[1] # flt.apps[2]
    /\ flt.out[1] = flt.apps[2]

\* Caller p holds the mutex of cache r, in either mode.
Holds(p, r) == rw[r].w = p \/ p \in rw[r].rd

\* C23: no mutex is held while refresh performs its upstream fetch: a
\* caller whose refresh is beginning or has its List call in flight holds
\* no mutex, and the steps of the fetch change no entry and no file; a
\* get() on the same resource type that arrives during the fetch can take
\* the mutex in shared mode and returns the entry held before the fetch
\* (absent if there is none or it has expired); a refresh, also one
\* started by a load, holds the mutex exclusively only inside its final set.
C23_NoLockDuringFetch ==
    /\ [](\A p \in P :
            /\ call[p].at \in {"refresh", "fetch"} =>
                  \A r \in R : ~Holds(p, r)
            /\ (call[p].op = "refresh" /\ \E r \in R : Holds(p, r)) =>
                  /\ call[p].in = "set"
                  /\ rw[call[p].r] = [w |-> p, rd |-> {}]
            /\ \A q \in P \ {p} :
                  (/\ call[p].at = "fetch"
                   /\ call[q].at = "acquire" /\ call[q].in = "get"
                   /\ call[q].r = call[p].r) => ENABLED CallAcquire(q))
    /\ [][\A p \in P :
            /\ (call[p].at \in {"refresh", "fetch"} /\ call'[p] # call[p]) =>
                  UNCHANGED <<mem, disk, rw>>
            /\ \A q \in P \ {p} :
                  (/\ call[p].at = "fetch" /\ call[q].r = call[p].r
                   /\ call[q].in = "get" /\ call[q].at = "locked"
                   /\ call'[q].at = "unlock") =>
                      /\ call'[q].got \in {Nil, mem[call[q].r]}
                      /\ call'[q].got = GetCached(call[q].r)
                      /\ call'[p].at = "fetch"
                      /\ UNCHANGED <<mem, disk>>]_vars

\* C23 witness: while the List call of a refresh of the cluster cache is
\* in flight, a get() of the cluster cache has returned the entry cached
\* before, and no mutex is held.
C23_Witness ==
    /\ call["p1"].op = "refresh" /\ call["p1"].at = "fetch"
    /\ call["p1"].r = "clusters"
    /\ call["p2"].op = "get" /\ call["p2"].at = "done"
    /\ call["p2"].r = "clusters"
    /\ call["p2"].got = CacheEntry(<<1>>, 0, ClusterCacheTTL)
    /\ mem["clusters"] = call["p2"].got
    /\ \A r \in R : rw[r] = Free

\* C24 (as stated): every change of a cache's in-memory entry and every
\* write or delete of its disk file is made by a caller that holds that
\* cache's mutex exclusively, in set, invalidate, loadFromDisk and
\* deleteAllCaches.
C24_AsStated ==
    [][\A r \in R :
          (mem'[r] # mem[r] \/ disk'[r] # disk[r]) =>
              \E p \in P : rw[r] = [w |-> p, rd |-> {}] /\ call'[p] # call[p]]_vars

\* The refresh that the load of cache r started returns to the load in
\* this step (Refresh returned nil or an error, which the load logs).
LoadRefreshReturns(r) ==
    /\ cpc \in {RefreshPc(r), FetchPc(r)}
    /\ cpc' = AfterLoadPc(r)

\* C25 (as stated): a load that finds no cache file makes exactly one
\* refresh; on fetch success the cache holds the fetched items and the
\* disk file is written; on failure the cache stays absent, no file is
\* created and the load returns normally.
C25_AsStated ==
    [][\A r \in R :
          (LoadRefreshReturns(r) /\ disk[r] = NoFile) =>
              /\ cfetch'[r].n = 1
              /\ cfetch'[r].res = "ok" =>
                    /\ mem'[r] # Nil /\ mem'[r].items = cfetch'[r].items
                    /\ disk'[r] = EncodeCache(mem'[r])
              /\ cfetch'[r].res = "err" =>
                    mem'[r] = Nil /\ disk'[r] = NoFile]_vars

\* C25 (amended): a load that finds no cache file changes nothing and
\* calls refresh, exactly once; on fetch success the cache holds the
\* fetched items with the type's TTL, and the disk file holds that entry
\* unless the write fails, in which case there is still no file, or a
\* truncated one, while the entry stays in memory; on fetch failure the
\* cache stays absent, no file is created, and the load returns normally
\* (construction goes on with the next statement).
C25_MissingFileRefreshesOnce ==
    /\ [](\A r \in R :
            /\ cfetch[r].n <= 1
            /\ cpc = RefreshPc(r) => mem[r] = Nil /\ cfetch[r].n = 0
            /\ cpc = FetchPc(r) => mem[r] = Nil /\ cfetch[r].n = 1)
    /\ [][\A r \in R :
            /\ (/\ cpc = LoadPc(r) /\ cpc' \notin {LoadPc(r), "down"}
                /\ ReadFile(disk[r]) = "notexist") =>
                  /\ cpc' = RefreshPc(r)
                  /\ UNCHANGED <<mem, disk, cfetch>>
            /\ (cpc \in {RefreshPc(r), FetchPc(r)} /\ cpc' # cpc) =>
                  cpc' \in {FetchPc(r), AfterLoadPc(r), "down"}
            /\ (LoadRefreshReturns(r) /\ disk[r] = NoFile) =>
                  /\ cfetch'[r].n = 1
                  /\ cfetch'[r].res \in {"ok", "err"}
                  /\ cfetch'[r].res = "ok" =>
                        /\ mem'[r] = CacheEntry(cfetch'[r].items, now,
                                                now + TTL(r))
                        /\ disk'[r] \in {EncodeCache(mem'[r]), NoFile, Corrupt}
                  /\ cfetch'[r].res = "err" =>
                        mem'[r] = Nil /\ disk'[r] = NoFile]_vars

\* C25 witness: a construction that started with no file at all has loaded
\* the cluster cache: one refresh, the fetched items are in memory, and
\* the write of the file failed, so there is no file.
C25_Witness ==
    /\ cold /\ cpc = AfterLoadPc("clusters")
    /\ cfetch["clusters"] = [n |-> 1, res |-> "ok", items |-> <<1>>]
    /\ mem["clusters"] = CacheEntry(<<1>>, now, now + ClusterCacheTTL)
    /\ disk["clusters"] = NoFile

\* The load of cache r runs in this step and finds a file that decodes to
\* an entry that has expired.
LoadsExpired(r) ==
    /\ cpc = LoadPc(r) /\ cpc' \notin {LoadPc(r), "down"}
    /\ ReadFile(disk[r]) = "ok" /\ DecodeCache(disk[r]).ok
    /\ After(now, DecodeCache(disk[r]).cache.expires_at)

\* C26 (as stated): a load that finds a decodable but expired file deletes
\* the file and then calls refresh, without adopting the entry, so that a
\* failed refresh leaves the cache absent in memory and absent on disk.
C26_AsStated ==
    [][\A r \in R :
          LoadsExpired(r) =>
              /\ cpc' = RefreshPc(r)
              /\ mem'[r] = Nil
              /\ disk'[r] = NoFile]_vars

\* C26 (amended): a load that finds a decodable but expired file tries to
\* delete it (the result of the removal is ignored: the file is gone, or
\* it stays as it was) and then calls refresh, exactly once; no entry that
\* has expired is ever put into memory; if the refresh fails the cache is
\* absent in memory, and on disk there is no file, or the expired file
\* whose removal failed.
C26_ExpiredFileRefreshes ==
    /\ [](\A r \in R :
            cpc \in {RefreshPc(r), FetchPc(r)} =>
               /\ mem[r] = Nil
               /\ \/ disk[r] \in {NoFile, Unreadable}
                  \/ /\ DecodeCache(disk[r]).ok
                     /\ After(now, DecodeCache(disk[r]).cache.expires_at))
    /\ [][\A r \in R :
            /\ LoadsExpired(r) =>
                  /\ cpc' = RefreshPc(r)
                  /\ mem'[r] = Nil /\ mem[r] = Nil
                  /\ disk'[r] \in {NoFile, disk[r]}
                  /\ cfetch'[r].n = 0
            /\ (mem'[r] # mem[r] /\ mem'[r] # Nil) =>
                  ~After(now, mem'[r].expires_at)
            /\ LoadRefreshReturns(r) =>
                  /\ cfetch'[r].n = 1
                  /\ cfetch'[r].res = "err" =>
                        mem'[r] = Nil /\ disk'[r] = disk[r]]_vars

\* C26 witness: the load of the cluster cache found an expired file, its
\* removal failed and the refresh failed: nothing in memory, the expired
\* file still on disk.
C26_Witness ==
    /\ cpc = AfterLoadPc("clusters")
    /\ cfetch["clusters"] = [n |-> 1, res |-> "err", items |-> <<>>]
    /\ mem["clusters"] = Nil
    /\ DecodeCache(disk["clusters"]).ok
    /\ After(now, DecodeCache(disk["clusters"]).cache.expires_at)

\* Caller p runs the body of a load in this step, on a file that does not
\* decode.
LoadsCorrupt(p) ==
    /\ call[p].at = "locked" /\ call[p].in = "load"
    /\ call'[p].at = "unlock"
    /\ ReadFile(disk[call[p].r]) = "ok" /\ ~DecodeCache(disk[call[p].r]).ok

\* C27: a load that finds a file that fails to decode changes neither the
\* memory nor the file, so the in-memory cache stays empty; it releases
\* the mutex and returns without calling refresh: no upstream fetch is
\* made, and the call completes (no crash).
C27_CorruptFileLeavesEmpty ==
    /\ [](\A p \in P :
            (call[p].op = "load" /\ call[p].at = "done"
             /\ call[p].res = "ok") => \A r \in R : ~Holds(p, r))
    /\ [][\A p \in P :
            /\ LoadsCorrupt(p) =>
                  /\ call'[p].res = "ok"
                  /\ UNCHANGED <<mem, disk>>
                  /\ mem'[call[p].r] = Nil
                  /\ GetCached(call[p].r)' = Nil
            /\ (call[p].op = "load" /\ call[p].at = "unlock"
                /\ call[p].res = "ok" /\ call'[p] # call[p]) =>
                  /\ call'[p].at = "done"
                  /\ rw'[call[p].r] = Free
                  /\ UNCHANGED <<mem, disk>>
            /\ (call[p].op = "load" /\ call'[p].at \in {"refresh", "fetch"}
                /\ call[p].at \notin {"refresh", "fetch"}) =>
                  /\ call[p].res = "refresh"
                  /\ disk[call[p].r] # Corrupt]_vars

\* C27 witness: a load of the cluster cache found a corrupt file and has
\* returned: nothing in memory, the file still corrupt, the mutex free.
C27_Witness ==
    /\ call["p1"].op = "load" /\ call["p1"].r = "clusters"
    /\ call["p1"].at = "done" /\ call["p1"].res = "ok"
    /\ call["p2"].at = "idle"
    /\ mem["clusters"] = Nil /\ disk["clusters"] = Corrupt
    /\ rw["clusters"] = Free

\* The load of cache r runs in this step.
LoadStep(r) == cpc = LoadPc(r) /\ cpc' \notin {LoadPc(r), "down"}
\* hasServerChanged runs in this step.
HasChangedStep == cpc = "hasChanged" /\ cpc' \notin {"hasChanged", "down"}

\* C28 (as stated): a cache file that does not decode is treated like an
\* absent one and triggers a fetch for that cache; an identity file that
\* does not decode is treated as "unchanged".
C28_AsStated ==
    [][/\ \A r \in R :
            (LoadStep(r) /\ disk[r] = Corrupt) => cpc' = RefreshPc(r)
       /\ (HasChangedStep /\ idfile = Corrupt) => ~changed']_vars

\* C28 (amended): a cache file that does not decode is not treated like an
\* absent one: the load of an absent file calls refresh, the load of a
\* corrupt file returns with no fetch, leaving the cache empty and the
\* corrupt file in place, so that the first request for that resource
\* type misses and pays the fetch; an identity file that does not decode
\* is treated as "unchanged": no cache is invalidated and construction
\* goes on to save the identity.
C28_CorruptCacheNotFetched ==
    [][/\ \A r \in R :
            /\ (LoadStep(r) /\ disk[r] = Corrupt) =>
                  /\ cpc' = AfterLoadPc(r)
                  /\ UNCHANGED <<mem, disk, cfetch>>
                  /\ cfetch[r].n = 0
                  /\ mem'[r] = Nil
                  /\ ~HandlerHit(GetCached(r)')
            /\ (LoadStep(r) /\ disk[r] = NoFile) =>
                  cpc' = RefreshPc(r) /\ UNCHANGED <<mem, disk>>
       /\ (HasChangedStep /\ idfile = Corrupt) =>
             /\ ~changed'
             /\ cpc' = "save"
             /\ UNCHANGED <<mem, disk, idfile>>]_vars

\* C28 witness: a construction found a corrupt identity file (and could
\* not rewrite it) and a corrupt cluster cache file: it invalidated
\* nothing and the load of the cluster cache returned with no fetch.
C28_Witness ==
    /\ cpc = AfterLoadPc("clusters")
    /\ ~changed /\ saved = "unchanged" /\ idfile = Corrupt
    /\ disk["clusters"] = Corrupt /\ mem["clusters"] = Nil
    /\ cfetch["clusters"] = NoFetch
    /\ disk["applications"] = NoFile

\* The entry of cache r is in memory and has expired.
Expired(r) == mem[r] # Nil /\ After(now, mem[r].expires_at)

\* Caller p runs the body of method m on cache r in this step.
BodyStep(p, m, r) ==
    /\ call[p].at = "locked" /\ call[p].in = m /\ call[p].r = r
    /\ call'[p].at = "unlock"

\* C29: get() changes no state: none of its steps changes an in-memory
\* entry or a disk file; a get() that finds an expired entry returns
\* absent and leaves the entry in memory and its file on disk; an expired
\* entry leaves memory only in a set or an invalidate, and its file
\* changes only in a set, an invalidate or a load.
C29_GetChangesNothing ==
    [][/\ \A p \in P :
            (call[p].in = "get" /\ call'[p] # call[p]) =>
                /\ UNCHANGED <<mem, disk, setBy, now>>
                /\ (BodyStep(p, "get", call[p].r) /\ Expired(call[p].r)) =>
                      /\ call'[p].got = Nil
                      /\ mem'[call[p].r] = mem[call[p].r]
                      /\ mem'[call[p].r] # Nil
                      /\ Expired(call[p].r)'
       /\ \A r \in R :
            /\ (Expired(r) /\ mem'[r] # mem[r]) =>
                  \E p \in P : BodyStep(p, "set", r) \/ BodyStep(p, "invalidate", r)
            /\ (Expired(r) /\ disk'[r] # disk[r]) =>
                  \E p \in P : \/ BodyStep(p, "set", r)
                               \/ BodyStep(p, "invalidate", r)
                               \/ BodyStep(p, "load", r)]_vars

\* C29 witness: a get() of the cluster cache returned absent because the
\* entry cached at construction had expired; the entry is still in memory
\* and its file still on disk.
C29_Witness ==
    /\ call["p1"].op = "get" /\ call["p1"].r = "clusters"
    /\ call["p1"].at = "done" /\ call["p1"].got = Nil
    /\ call["p2"].at = "idle"
    /\ now > ClusterCacheTTL
    /\ mem["clusters"] = CacheEntry(<<1>>, 0, ClusterCacheTTL)
    /\ disk["clusters"] = EncodeCache(mem["clusters"])

\* C30: a refresh whose upstream fetch never returns blocks only the call
\* that issued it: when the List call of the first caller stays in flight
\* for ever, the call of the second caller (a get, set, invalidate,
\* refresh or load on the other resource type or on the same one)
\* completes.
C30_HungFetchBlocksOnlyItsCaller ==
    (<>[](call["p1"].at = "fetch")) => <>[](call["p2"].at = "done")

\* C30 witness: the List call of the refresh started by a load of the
\* cluster cache is still in flight at the end of time, while a refresh of
\* the application cache has fetched, cached its items and returned.
C30_Witness ==
    /\ call["p1"].at = "fetch" /\ call["p1"].r = "clusters"
    /\ call["p1"].op = "load"
    /\ call["p2"].at = "done" /\ call["p2"].op = "refresh"
    /\ call["p2"].r = "applications" /\ call["p2"].res = "ok"
    /\ now = MaxTime
    /\ mem["applications"] # Nil /\ mem["applications"].cached_at = now
    /\ mem["clusters"] = Nil

\* The List call of a request returns items and its Refresh caches them.
RecoveryStep(h) == hpc[h].at = "fetch" /\ hpc'[h].at = "get2"

C32_IdentityFileUntouched ==
    [][cpc = "done" => /\ idfile' = idfile
                       /\ idfile' \in IdentityFiles
                       /\ saved' = saved]_vars

\* C32 witness: the identity file still names another endpoint than the one
\* in use after a request refreshed the cluster cache, a set filled the
\* application cache and deleteAllCaches then emptied both.
C32_Witness ==
    /\ idfile.kind = "json" /\ idfile.server # argoServer
    /\ hres.refresh = "ok" /\ hres.r = "clusters" /\ hres.kind = "items"
    /\ \A r \in R : mem[r] = Nil /\ disk[r] = NoFile /\ ~setBy[r].called
    /\ now > 0

\* A caller is between the Lock and the Unlock of a method.
InsideLock(p) == call[p].at \in {"locked", "unlock", "da_clear", "da_unlock"}

\* C33: no call waits for ever on a cache mutex, even when the upstream
\* never answers: a caller holds a mutex only between the Lock and the
\* Unlock of one method, on that method's cache, and holds none while it
\* waits for another or runs a refresh; in the end no caller is waiting
\* for a mutex or holding one: each has returned or is waiting for the
\* upstream, and every mutex is free.
C33_NoLockHeldForEver ==
    /\ [](\A p \in P, r \in R :
            Holds(p, r) => InsideLock(p) /\ call[p].r = r)
    /\ <>[](/\ \A p \in P : call[p].at \in {"done", "fetch"}
             /\ \A r \in R : rw[r] = Free)

\* C33 witness: a load released the cluster mutex and its refresh is
\* waiting for the upstream with no mutex held, while deleteAllCaches has
\* taken and released the cluster mutex and holds the application mutex.
C33_Witness ==
    /\ call["p1"].op = "load" /\ call["p1"].at = "fetch"
    /\ call["p1"].r = "clusters"
    /\ call["p2"].op = "deleteAll" /\ call["p2"].at = "da_clear"
    /\ call["p2"].r = "applications"
    /\ rw["clusters"] = Free
    /\ rw["applications"] = [w |-> "p2", rd |-> {}]

\* C34: starting with no entry and no file and with a disk that works,
\* after any interleaving of set, invalidate and refresh calls, whenever
\* the mutex of a cache is free its file exists exactly when its in-memory
\* entry is present, and the file decodes to exactly that entry.
C34_MemoryAndDiskMirrored ==
    \A r \in R :
        rw[r] = Free =>
            /\ (disk[r] = NoFile) <=> (mem[r] = Nil)
            /\ mem[r] # Nil =>
                  /\ DecodeCache(disk[r]).ok
                  /\ DecodeCache(disk[r]).cache = mem[r]

\* C34 witness: the cluster cache was set, invalidated and set again by a
\* refresh at a later time, and file and entry agree; the application cache
\* holds the entry and file of a set of no items with TTL 0, while one
\* caller is about to take its mutex.
C34_Witness ==
    /\ rw["clusters"] = Free /\ rw["applications"] = Free
    /\ mem["clusters"] = CacheEntry(<<1>>, 1, 1 + ClusterCacheTTL)
    /\ disk["clusters"] = EncodeCache(mem["clusters"])
    /\ call["p1"].op = "refresh" /\ call["p1"].at = "done"
    /\ call["p1"].r = "clusters"
    /\ mem["applications"] = CacheEntry(<<>>, 0, 0)
    /\ DecodeCache(disk["applications"]).cache = mem["applications"]
    /\ call["p2"].op = "invalidate" /\ call["p2"].at = "acquire"
    /\ call["p2"].r = "applications"

\* C35 (as stated): when construction found a saved identity naming
\* another endpoint, every entry in memory when construction returns was
\* produced by a fetch made during this construction, also when the
\* removal of an old cache file failed.
C35_AsStated ==
    (cpc = "ret" /\ changed) =>
        \A r \in R :
            mem[r] # Nil =>
                /\ cfetch[r].res = "ok"
                /\ setBy[r].called
                /\ mem[r] = CacheEntry(cfetch[r].items, setBy[r].at,
                                       setBy[r].at + TTL(r))

\* C36: construction reads the saved identity before it overwrites it and
\* invalidates before it loads: hasServerChanged runs once, first, on the
\* file as the earlier run left it; deleteAllCaches runs only after it and
\* only when it returned true; the save follows and the loads follow the
\* save.  So on an identity file written by a construction with endpoint
\* E, a construction with the same E sees "unchanged" and reaches the
\* loads with every cache file as it was, and a construction with another
\* endpoint sees "changed" and invalidates once.
C36_ReadBeforeSaveInvalidateBeforeLoad ==
    /\ [][(cpc = "hasChanged" /\ cpc' \notin {"hasChanged", "down"}) =>
             /\ idfile.kind = "json" =>
                   changed' = (idfile.server # argoServer)
             /\ cpc' = IF changed' THEN "deleteAll" ELSE "save"
             /\ UNCHANGED <<idfile, mem, disk>>]_vars
    /\ [][/\ (cpc' = "hasChanged" /\ cpc # "hasChanged") => cpc = "mkdir"
          /\ (cpc' = "mkdir" /\ cpc # "mkdir") => cpc = "down"
          /\ (cpc' = "deleteAll" /\ cpc # "deleteAll") =>
                cpc = "hasChanged" /\ changed'
          /\ (cpc' = "save" /\ cpc # "save") =>
                \/ cpc = "hasChanged" /\ ~changed'
                \/ cpc = "deleteAll" /\ changed
          /\ (cpc' = "load_clusters" /\ cpc # "load_clusters") =>
                cpc = "save" /\ changed' = changed
          /\ (cpc \in {"mkdir", "hasChanged"} /\ cpc' # "down") =>
                UNCHANGED <<idfile, mem, disk>>
          /\ (cpc = "save" /\ cpc' # "down" /\ ~changed) =>
                UNCHANGED <<mem, disk>>]_vars

\* C36 witness: a construction with the endpoint an earlier run saved has
\* just seen "unchanged" and is about to save, the cluster cache file of
\* the earlier run being still in place.
C36_Witness ==
    /\ cpc = "save" /\ ~changed
    /\ idfile.kind = "json" /\ idfile.server = argoServer
    /\ idfile.server = "b:443"
    /\ idfile.saved_at < now
    /\ disk["clusters"].kind = "json"
    /\ mem["clusters"] = Nil

\* C37: adopting an entry from disk never extends its life: a cache file
\* holds the cached_at and the expires_at = cached_at + TTL of the set that
\* wrote it; a load changes the in-memory entry only by adopting exactly
\* the decoded, unexpired entry of the file, and leaves the file as it is;
\* so an entry that no fetch of this run produced is the one of its file,
\* and get() returns it no later than its original cached_at + TTL, however
\* many restarts lie between.
C37_AdoptionKeepsExpiry ==
    /\ [](\A r \in R :
            /\ disk[r].kind = "json" =>
                  /\ disk[r].expires_at = disk[r].cached_at + TTL(r)
                  /\ disk[r].cached_at <= now
            /\ (mem[r] # Nil /\ ~setBy[r].called) =>
                  /\ disk[r] = EncodeCache(mem[r])
                  /\ cfetch[r].res # "ok"
            /\ GetCached(r) # Nil => now <= mem[r].cached_at + TTL(r))
    /\ [][\A r \in R :
            (cpc = LoadPc(r) /\ mem'[r] # mem[r]) =>
                /\ mem'[r] = DecodeCache(disk[r]).cache
                /\ mem'[r].cached_at = disk[r].cached_at
                /\ mem'[r].expires_at = disk[r].expires_at
                /\ ~After(now, mem'[r].expires_at)
                /\ UNCHANGED disk]_vars

\* C37 witness: after a restart at a later time with no fetch, the
\* construction has adopted the cluster entry of an earlier run at the last
\* instant of its life.
C37_Witness ==
    /\ cpc = "ret"
    /\ mem["clusters"] # Nil /\ ~setBy["clusters"].called
    /\ cfetch["clusters"].n = 0
    /\ mem["clusters"].cached_at < now
    /\ mem["clusters"].expires_at = now
    /\ mem["clusters"].items = <<1>>
    /\ GetCached("clusters") = mem["clusters"]

\* C38: an entry returned by get() is an immutable snapshot: whatever sets,
\* refreshes and invalidations follow, the struct a caller's pointer refers
\* to holds the items, cached_at and expires_at it held when get() returned
\* it; the pointer refers to the struct of the cache only until the next
\* set or invalidate of that cache, which install a new struct or nil.
C38_SnapshotImmutable ==
    \A p \in P :
        ~heap[p].nil =>
            /\ call[p].op = "get" /\ call[p].r = heap[p].of
            /\ heap[p].cell = call[p].got
            /\ heap[p].cell # Nil
            /\ heap[p].current => mem[heap[p].of] = heap[p].cell

\* C38 witness: a caller holds the entry a get() of the cluster cache
\* returned at time 0; the cache has since been invalidated and set again
\* with other items at a later time, and the caller's entry is as it was.
C38_Witness ==
    /\ ~heap["p1"].nil /\ heap["p1"].of = "clusters"
    /\ ~heap["p1"].current
    /\ heap["p1"].cell = CacheEntry(<<1>>, 0, ClusterCacheTTL)
    /\ call["p1"].got = heap["p1"].cell
    /\ mem["clusters"] = CacheEntry(<<>>, 1, 1)
    /\ disk["clusters"] = EncodeCache(mem["clusters"])

\* C39 (as stated): an invalidation is not undone by older data: when the
\* fetch of a refresh started before an invalidate of the same cache was
\* called, and no other refresh or set follows, the cache is absent from the
\* moment the invalidate has emptied it and get() returns absent: the
\* refresh does not repopulate it with its pre-invalidation result.
C39_AsStated ==
    \A q \in P :
        (call[q].op = "invalidate" /\ call[q].at \in {"unlock", "done"}) =>
            /\ mem[call[q].r] = Nil
            /\ GetCached(call[q].r) = Nil

====
